---- MODULE Spec2Model ----
(***************************************************************************)
(* A model of the quiz generator (src/main.py, src/quality_control.py,     *)
(* src/utils.py, src/config.py).                                           *)
(*                                                                         *)
(*   SpecDist  QuizGenerator.distribute_questions called directly with     *)
(*             arbitrary arguments.                                        *)
(*   SpecQC    QuestionQualityControl.validate_question called directly    *)
(*             with an arbitrary question and arbitrary LLM replies.       *)
(*   Spec      QuizGenerator.generate_quiz, from the request to the        *)
(*             returned quiz document, over small curricula.               *)
(*   SpecSelect  QuizGenerator.select_passage and the passage selection    *)
(*             of generate_quiz, over arbitrary small passage pools.       *)
(*   SpecIndex QuizGenerator.get_previous_standards over small curricula.  *)
(*   SpecParse parse_claude_response on well-formed replies.               *)
(*   SpecRetry one call of a function wrapped by with_retry.               *)
(***************************************************************************)
EXTENDS Integers, Sequences, FiniteSets, TLC

(***************************************************************************)
(* Bounds of the model.                                                    *)
(***************************************************************************)
MaxLessonStd == 3
MaxPrevStd == 2
MaxMissingPrompts == 1
MaxEmptyDistractors == 1
MaxLLMFaults == 3
MaxPassages == 2
MaxLessons == 3
MaxStandardsPerLesson == 2
MaxValueLen == 1
MaxRetries == 4
MaxFields == 3
MaxFileLessons == 2

(***************************************************************************)
(* Program constants.                                                      *)
(***************************************************************************)
MaxNumQuestions == 12
SingleStandardFloor == 3
MultiStandardFloor == 2
CapFloor == 3
CapDivisor == 4
max_attempts == 3

DIFFICULTY_LEVELS ==
  [d \in 1..3 |->
     IF d = 1 THEN [easy |-> <<2, 5>>, medium |-> <<2, 5>>, hard |-> <<1, 2>>]
     ELSE IF d = 2 THEN [easy |-> <<2, 3>>, medium |-> <<2, 5>>, hard |-> <<2, 4>>]
     ELSE [easy |-> <<1, 2>>, medium |-> <<2, 4>>, hard |-> <<2, 6>>]]

Tiers == <<"easy", "medium", "hard">>

\* A quality-control object that is the real one but for validate_question,
\* which is replaced by one whose verdict is free.
QCStandIn == "stub"

\* The quiz lengths the requests of Spec ask for: a single question, and with
\* the accepting and the rejecting quality control also the default of 6.
QuizSizes(qc) == IF qc \in {"real", QCStandIn} THEN {1} ELSE {1, 6}

(***************************************************************************)
(* Standards.  The code treats a standard id as an opaque key, so the      *)
(* target lists are enumerated up to renaming: the first new id of a list  *)
(* is "A", the next "B", then "C".  "P" is an id that is never a target.   *)
(***************************************************************************)
TargetIds == <<"A", "B", "C", "D">>
Standards == {"A", "B", "C", "D", "P"}

(***************************************************************************)
(* Generic helpers.                                                        *)
(***************************************************************************)
Min(a, b) == IF a < b THEN a ELSE b
Max(a, b) == IF a > b THEN a ELSE b

SeqsUpTo(S, lo, hi) == UNION {[1..k -> S] : k \in lo..hi}

Contains(s, x) == \E i \in 1..Len(s) : s[i] = x

\* list.remove(x): drops the first occurrence.
RemoveFirst(s, x) ==
  LET i == CHOOSE j \in 1..Len(s) : s[j] = x /\ \A k \in 1..(j-1) : s[k] # x
  IN  [k \in 1..(Len(s)-1) |-> IF k < i THEN s[k] ELSE s[k+1]]

\* A target list in canonical naming: ids are introduced in the order A, B, C, D.
Canonical(s) ==
  \A i \in 1..Len(s) :
     \E k \in 1..Len(TargetIds) :
        /\ s[i] = TargetIds[k]
        /\ \A j \in 1..(k-1) : \E h \in 1..(i-1) : s[h] = TargetIds[j]

LessonLists == {s \in SeqsUpTo({"A", "B", "C", "D"}, 1, MaxLessonStd) : Canonical(s)}
PrevLists == SeqsUpTo({"A", "B", "P"}, 0, MaxPrevStd)

ZeroCounts == [easy |-> 0, medium |-> 0, hard |-> 0]

VARIABLES
  \* distribute_questions: arguments
  num_questions, difficulty, lesson_standards, all_standards,
  \* distribute_questions: locals
  dpc, num_easy, num_medium, num_hard,
  questions_per_standard, qps_keys, questions_left, prioritized_standards,
  result, tiers_left,
  \* QuestionQualityControl: the prompt catalogue, and one validate_question call
  qpc, qc_prompts, question, check_idx, v_result, distractor_results,
  \* QuizGenerator: the loaded data and the quality-control object
  lessons_data, passages_data, examples_data, quality_control,
  \* generate_quiz: arguments (with num_questions and difficulty above)
  lesson_name, standard_id,
  \* generate_quiz, generate_questions, generate_question_for_standard_and_difficulty
  gpc, passage, all_questions, slot, attempt, attempts_made, llm_faults,
  llm_called, last_attempt, last_prompt, quiz,
  \* select_passage: argument and returned value
  sp_arg, sp_result,
  \* get_previous_standards: argument and returned value
  gps_standard, gps_result,
  \* load_data: the lessons file; get_standards_for_lesson: returned value
  lessons_file, gsl_result,
  \* parse_claude_response: argument and returned value
  response, parsed,
  \* with_retry: the decorator's arguments, and one call of the wrapper
  rpc, max_retries, timeout, exceptions_to_retry, retry_attempt, invocations,
  in_flight,
  waits, error_messages, retry_result

distVars == <<num_questions, difficulty, lesson_standards, all_standards,
              dpc, num_easy, num_medium, num_hard,
              questions_per_standard, qps_keys, questions_left,
              prioritized_standards, result, tiers_left>>

qcVars == <<qpc, qc_prompts, question, check_idx, v_result, distractor_results>>

quizVars == <<lessons_data, passages_data, examples_data, quality_control,
              lesson_name, standard_id,
              gpc, passage, all_questions, slot, attempt, attempts_made,
              llm_faults, llm_called, last_attempt, last_prompt, quiz, sp_arg, sp_result>>

indexVars == <<gps_standard, gps_result, lessons_file, gsl_result>>

parseVars == <<response, parsed>>

retryVars == <<rpc, max_retries, timeout, exceptions_to_retry, retry_attempt,
               invocations, in_flight, waits, error_messages, retry_result>>

otherVars == <<indexVars, parseVars, retryVars>>

vars == <<distVars, qcVars, quizVars, otherVars>>

(***************************************************************************)
(* distribute_questions, step 1: tier sizing.                              *)
(***************************************************************************)
\* ScaledMin rounding up where int() rounds down.
ScaledMinUp(m, n, total) == Max(1, (m * n + total - 1) \div total)

\* max(1, int(m * (num_questions / min_total)))
ScaledMin(m, n, total) == Max(1, (m * n) \div total)

TierMins(d, n) ==
  LET r == DIFFICULTY_LEVELS[d]
      total == r.easy[1] + r.medium[1] + r.hard[1]
  IN  IF total > n
      THEN [easy |-> ScaledMin(r.easy[1], n, total),
            medium |-> ScaledMin(r.medium[1], n, total),
            hard |-> ScaledMin(r.hard[1], n, total)]
      ELSE [easy |-> r.easy[1], medium |-> r.medium[1], hard |-> r.hard[1]]

\* DrawTier with random.randint(lo, hi + 1) for random.randint(lo, hi).
DrawTierWide(lo, hi, cap) ==
  IF hi < lo THEN {Min(lo, cap)}
  ELSE IF hi = lo THEN {lo}
  ELSE lo..(hi + 1)

\* The values one tier count can take: the minimum capped by what is left when
\* the range is invalid, the minimum when the range is a single value, and a
\* random.randint draw otherwise.
DrawTier(lo, hi, cap) ==
  IF hi < lo THEN {Min(lo, cap)}
  ELSE IF hi = lo THEN {lo}
  ELSE lo..hi

TierSizing ==
  /\ dpc = "tiers"
  /\ LET r == DIFFICULTY_LEVELS[difficulty]
         mins == TierMins(difficulty, num_questions)
         max_easy == Min(r.easy[2], num_questions - mins.medium - mins.hard)
     IN  \E e \in DrawTier(mins.easy, max_easy, num_questions) :
           LET remaining == num_questions - e
               max_medium == Min(r.medium[2], remaining - mins.hard)
           IN  \E m \in DrawTier(mins.medium, max_medium, remaining) :
                 /\ num_easy' = e
                 /\ num_medium' = m
                 /\ num_hard' = num_questions - e - m
  /\ dpc' = "quota"
  /\ UNCHANGED <<qcVars, quizVars, otherVars>>
  /\ UNCHANGED <<num_questions, difficulty, lesson_standards, all_standards,
                 questions_per_standard, qps_keys, questions_left,
                 prioritized_standards, result, tiers_left>>

(***************************************************************************)
(* distribute_questions, step 2: the per-standard quota.                   *)
(***************************************************************************)
MinQuestionsPerLessonStandard(n, lesson) ==
  IF Len(lesson) = 0 THEN 0
  ELSE IF Len(lesson) = 1 THEN Min(SingleStandardFloor, n)
  ELSE Min(MultiStandardFloor, n \div Len(lesson))

\* for std in lesson_standards: ... questions_per_standard[std] = questions_for_std
RECURSIVE MinimumLoop(_, _, _, _, _, _)
MinimumLoop(i, lesson, minper, qps, keys, left) ==
  IF i > Len(lesson) \/ left <= 0
  THEN [qps |-> qps, keys |-> keys, left |-> left]
  ELSE LET std == lesson[i]
           q == Min(minper, left)
       IN  MinimumLoop(i + 1, lesson, minper,
                       [qps EXCEPT ![std] = q],
                       IF Contains(keys, std) THEN keys ELSE Append(keys, std),
                       left - q)

PrioritizedStandards(lesson, all) ==
  lesson \o SelectSeq(all, LAMBDA s : ~Contains(lesson, s))

MaxPerStandard(n) == Max(CapFloor, n \div CapDivisor)

\* Where the quota phase continues: the weighted loop, the uniform loop that
\* follows it, or the tier assignment.
QuotaPhase(left, prio, keys) ==
  IF left > 0 /\ prio # <<>> THEN "weighted"
  ELSE IF left > 0 /\ keys # <<>> THEN "even"
  ELSE "assign"

AssignMinimum ==
  /\ dpc = "quota"
  /\ LET minper == MinQuestionsPerLessonStandard(num_questions, lesson_standards)
         m == MinimumLoop(1, lesson_standards, minper,
                          [s \in Standards |-> 0], <<>>, num_questions)
         prio == PrioritizedStandards(lesson_standards, all_standards)
     IN  /\ questions_per_standard' = m.qps
         /\ qps_keys' = m.keys
         /\ questions_left' = m.left
         /\ prioritized_standards' = prio
         /\ dpc' = QuotaPhase(m.left, prio, m.keys)
  /\ UNCHANGED <<qcVars, quizVars, otherVars>>
  /\ UNCHANGED <<num_questions, difficulty, lesson_standards, all_standards,
                 num_easy, num_medium, num_hard, result, tiers_left>>

\* weights = [max(1, len - i) for i in range(len)]
Weight(len, i) == Max(1, len - (i - 1))

\* One iteration of "while questions_left > 0 and prioritized_standards".
WeightedStep ==
  /\ dpc = "weighted"
  /\ \E i \in 1..Len(prioritized_standards) :
       /\ Weight(Len(prioritized_standards), i) > 0
       /\ LET std == prioritized_standards[i]
              cnt == questions_per_standard[std] + 1
              prio == IF cnt >= MaxPerStandard(num_questions)
                      THEN RemoveFirst(prioritized_standards, std)
                      ELSE prioritized_standards
              keys == IF Contains(qps_keys, std) THEN qps_keys
                      ELSE Append(qps_keys, std)
          IN  /\ questions_per_standard' = [questions_per_standard EXCEPT ![std] = cnt]
              /\ qps_keys' = keys
              /\ questions_left' = questions_left - 1
              /\ prioritized_standards' = prio
              /\ dpc' = QuotaPhase(questions_left - 1, prio, keys)
  /\ UNCHANGED <<qcVars, quizVars, otherVars>>
  /\ UNCHANGED <<num_questions, difficulty, lesson_standards, all_standards,
                 num_easy, num_medium, num_hard, result, tiers_left>>

\* One iteration of "while questions_left > 0 and all_stds".
EvenStep ==
  /\ dpc = "even"
  /\ \E i \in 1..Len(qps_keys) :
       LET std == qps_keys[i]
       IN  /\ questions_per_standard' =
                [questions_per_standard EXCEPT ![std] = @ + 1]
           /\ questions_left' = questions_left - 1
           /\ dpc' = IF questions_left - 1 > 0 THEN "even" ELSE "assign"
  /\ UNCHANGED <<qcVars, quizVars, otherVars>>
  /\ UNCHANGED <<num_questions, difficulty, lesson_standards, all_standards,
                 num_easy, num_medium, num_hard, qps_keys,
                 prioritized_standards, result, tiers_left>>

(***************************************************************************)
(* distribute_questions, step 3: tiers per standard.                       *)
(***************************************************************************)
\* for std in lesson_standards: hard first, then medium, then easy
RECURSIVE LessonTierLoop(_, _, _, _, _, _)
LessonTierLoop(i, lesson, qps, keys, res, left) ==
  IF i > Len(lesson) THEN [res |-> res, left |-> left]
  ELSE LET std == lesson[i] IN
       IF ~Contains(keys, std)
       THEN LessonTierLoop(i + 1, lesson, qps, keys, res, left)
       ELSE LET count == qps[std]
                h == Min(count, left.hard)
                c1 == count - h
                m == IF c1 > 0 THEN Min(c1, left.medium) ELSE 0
                c2 == c1 - m
                e == IF c2 > 0 THEN Min(c2, left.easy) ELSE 0
            IN  LessonTierLoop(i + 1, lesson, qps, keys,
                  [res EXCEPT ![std] = [easy |-> e, medium |-> m, hard |-> h]],
                  [easy |-> left.easy - e, medium |-> left.medium - m,
                   hard |-> left.hard - h])

\* for std, count in questions_per_standard.items(): easy first, then medium, then hard
RECURSIVE OtherTierLoop(_, _, _, _, _, _)
OtherTierLoop(i, lesson, qps, keys, res, left) ==
  IF i > Len(keys) THEN [res |-> res, left |-> left]
  ELSE LET std == keys[i] IN
       IF Contains(lesson, std)
       THEN OtherTierLoop(i + 1, lesson, qps, keys, res, left)
       ELSE LET count == qps[std]
                e == IF count > 0 /\ left.easy > 0 THEN Min(count, left.easy) ELSE 0
                c1 == count - e
                m == IF c1 > 0 /\ left.medium > 0 THEN Min(c1, left.medium) ELSE 0
                c2 == c1 - m
                h == IF c2 > 0 /\ left.hard > 0 THEN Min(c2, left.hard) ELSE 0
            IN  OtherTierLoop(i + 1, lesson, qps, keys,
                  [res EXCEPT ![std] = [easy |-> e, medium |-> m, hard |-> h]],
                  [easy |-> left.easy - e, medium |-> left.medium - m,
                   hard |-> left.hard - h])

\* TierPass without the loop over the standards that are not lesson standards.
TierPassLessonOnly(lesson, qps, keys, e, m, h) ==
  LessonTierLoop(1, lesson, qps, keys, [s \in Standards |-> ZeroCounts],
                 [easy |-> e, medium |-> m, hard |-> h])

\* Lines 842-898: the lesson standards first, then the other standards.
TierPass(lesson, qps, keys, e, m, h) ==
  LET a == LessonTierLoop(1, lesson, qps, keys, [s \in Standards |-> ZeroCounts],
                          [easy |-> e, medium |-> m, hard |-> h])
  IN  OtherTierLoop(1, lesson, qps, keys, a.res, a.left)

AssignTiers ==
  /\ dpc = "assign"
  /\ LET t == TierPass(lesson_standards, questions_per_standard, qps_keys,
                       num_easy, num_medium, num_hard)
     IN  /\ result' = t.res
         /\ tiers_left' = t.left
  /\ dpc' = "leftover"
  /\ UNCHANGED <<qcVars, quizVars, otherVars>>
  /\ UNCHANGED <<num_questions, difficulty, lesson_standards, all_standards,
                 num_easy, num_medium, num_hard, questions_per_standard,
                 qps_keys, questions_left, prioritized_standards>>

\* The standards of result that hold the fewest questions of tier diff.
EligibleStandards(res, keys, diff) ==
  {s \in {keys[i] : i \in 1..Len(keys)} :
     \A i \in 1..Len(keys) : res[s][diff] <= res[keys[i]][diff]}

\* The leftover pass: for each tier in turn, one unit at a time to a standard
\* holding the fewest questions of that tier.  The set of results it can end in.
RECURSIVE Redistribute(_, _, _, _)
Redistribute(res, keys, left, t) ==
  IF t > Len(Tiers) THEN {[res |-> res, left |-> left]}
  ELSE LET diff == Tiers[t] IN
       IF left[diff] <= 0 \/ EligibleStandards(res, keys, diff) = {}
       THEN Redistribute(res, keys, left, t + 1)
       ELSE UNION {Redistribute([res EXCEPT ![s][diff] = @ + 1], keys,
                                [left EXCEPT ![diff] = @ - 1], t)
                   : s \in EligibleStandards(res, keys, diff)}

RedistributeLeftover ==
  /\ dpc = "leftover"
  /\ \E o \in (IF tiers_left.easy + tiers_left.medium + tiers_left.hard > 0
               THEN Redistribute(result, qps_keys, tiers_left, 1)
               ELSE {[res |-> result, left |-> tiers_left]}) :
       /\ result' = o.res
       /\ tiers_left' = o.left
  /\ dpc' = "done"
  /\ UNCHANGED <<qcVars, quizVars, otherVars>>
  /\ UNCHANGED <<num_questions, difficulty, lesson_standards, all_standards,
                 num_easy, num_medium, num_hard, questions_per_standard,
                 qps_keys, questions_left, prioritized_standards>>

(***************************************************************************)
(* Measures of a distribution.                                             *)
(***************************************************************************)
RECURSIVE SumOver(_, _)
SumOver(f, S) ==
  IF S = {} THEN 0
  ELSE LET x == CHOOSE y \in S : TRUE IN f[x] + SumOver(f, S \ {x})

KeySet(keys) == {keys[i] : i \in 1..Len(keys)}
StandardTotal(res, s) == res[s].easy + res[s].medium + res[s].hard
TotalDistributed(res, keys) ==
  SumOver([s \in Standards |-> StandardTotal(res, s)], KeySet(keys))

(***************************************************************************)
(* QuestionQualityControl (src/quality_control.py).                        *)
(*                                                                         *)
(* An LLM reply to a check prompt is abstracted to what the parsers read   *)
(* from it: where the score stands (a JSON object in <answer> tags, a      *)
(* fenced JSON block, or inline text), the score, whether a reasoning      *)
(* string comes with it, and, for inline text, the verdict word the        *)
(* parser's last heuristic looks for ("pass"/"plausible": pos,             *)
(* "fail"/"not plausible": neg).                                           *)
(***************************************************************************)
required_checks ==
  <<"formatting", "structure", "depth", "precision", "textual evidence",
    "single correct answer">>

required_prompts ==
  {"formatting", "plausibility", "single correct answer", "structure", "depth",
   "precision", "textual evidence"}

distractor_ids == <<"distractor1", "distractor2", "distractor3">>

Replies ==
  [kind : {"reply"}, form : {"answer", "fenced"}, score : 0..1,
   reasoning : BOOLEAN, word : {"none"}]
  \cup
  [kind : {"reply"}, form : {"inline"}, score : 0..1, reasoning : BOOLEAN,
   word : {"none", "pos", "neg"}]

\* The last error of a call whose retries are used up, and the absence of a call.
Raised == [kind |-> "raise"]
NoCall == [kind |-> "none"]

\* What a call of _call_claude_with_retry ends in: a reply, or the last error
\* once the retries are used up.
CallOutcomes == Replies \cup {Raised}

\* _parse_quality_check_response: {"score", "reasoning", "details"}
ParseQualityCheckResponse(r) ==
  IF r.form \in {"answer", "fenced"}
  THEN [score |-> r.score, reasoning |-> r.reasoning]
  ELSE [score |-> IF r.word = "pos" THEN 1
                  ELSE IF r.word = "neg" THEN 0
                  ELSE r.score,
        reasoning |-> r.reasoning]

\* _parse_plausibility_response: {"is_plausible", "reasoning"}, and no "score"
ParsePlausibilityResponse(r) ==
  IF r.form \in {"answer", "fenced"}
  THEN [is_plausible |-> (r.score = 1), reasoning |-> r.reasoning]
  ELSE [is_plausible |-> IF r.word = "pos" THEN TRUE
                         ELSE IF r.word = "neg" THEN FALSE
                         ELSE r.score = 1,
        reasoning |-> r.reasoning]

\* dict.get(key, default) on a record
Get(rec, key, default) == IF key \in DOMAIN rec THEN rec[key] ELSE default

\* _run_specific_quality_check with the call's reply ("none": no template, no call)
RunSpecificQualityCheck(check_name, prompts, r) ==
  IF check_name \notin prompts
  THEN [passes |-> FALSE, score |-> 0, reasoning |-> TRUE]
  ELSE LET c == ParseQualityCheckResponse(r)
           score == Get(c, "score", 0)
       IN  [passes |-> score >= 1, score |-> score,
            reasoning |-> Get(c, "reasoning", FALSE)]

\* The tier validate decides the plausibility threshold by.
DifficultyLevel(d) ==
  IF d \in {"easy", "medium", "hard"} THEN d
  ELSE IF d = "1" THEN "easy"
  ELSE IF d = "3" THEN "hard"
  ELSE "medium"

RequiredPlausible(d) == IF DifficultyLevel(d) = "easy" THEN 1 ELSE 2

NewValidation ==
  [is_valid |-> TRUE, errors |-> <<>>, improvement_suggestions |-> <<>>,
   quality_checks |-> [c \in {} |-> [passes |-> FALSE, reasoning |-> FALSE]]]

\* AfterCheck with the error entry left out once the question is invalid.
AfterCheckFirstError(v, check_name, c) ==
  [is_valid |-> v.is_valid /\ c.passes,
   errors |-> IF c.passes \/ ~v.is_valid THEN v.errors
              ELSE Append(v.errors, check_name),
   improvement_suggestions |->
     IF ~c.passes /\ c.reasoning
     THEN Append(v.improvement_suggestions, check_name)
     ELSE v.improvement_suggestions,
   quality_checks |->
     [n \in DOMAIN v.quality_checks \cup {check_name} |->
        IF n = check_name
        THEN [passes |-> c.passes, reasoning |-> ~c.passes /\ c.reasoning]
        ELSE v.quality_checks[n]]]

\* One iteration of "for check_name in required_checks" of
\* _perform_advanced_validation, applied to a validation result.
\* quality_checks keeps of a check result whether it passes and, for a
\* failing one, whether a reasoning comes with it.
AfterCheck(v, check_name, c) ==
  [is_valid |-> v.is_valid /\ c.passes,
   errors |-> IF c.passes THEN v.errors ELSE Append(v.errors, check_name),
   improvement_suggestions |->
     IF ~c.passes /\ c.reasoning
     THEN Append(v.improvement_suggestions, check_name)
     ELSE v.improvement_suggestions,
   quality_checks |->
     [n \in DOMAIN v.quality_checks \cup {check_name} |->
        IF n = check_name
        THEN [passes |-> c.passes, reasoning |-> ~c.passes /\ c.reasoning]
        ELSE v.quality_checks[n]]]

\* One iteration of "for distractor_id in distractor_ids" of
\* _check_distractor_plausibility: the entry appended to distractor_results.
DistractorResult(has_text, r) ==
  IF ~has_text THEN [is_plausible |-> FALSE, reply |-> -1]
  ELSE LET plausibility_result == ParsePlausibilityResponse(r)
           score == Get(plausibility_result, "score", 0)
       IN  [is_plausible |-> score >= 1, reply |-> r.score]

NoPlausibilityPrompt ==
  [i \in 1..3 |-> [is_plausible |-> FALSE, reply |-> -1]]

PlausibleCount(results) ==
  Cardinality({i \in 1..Len(results) : results[i].is_plausible})

\* The end of _perform_advanced_validation: the plausibility verdict.
AfterPlausibility(v, d, results) ==
  LET passes == PlausibleCount(results) >= RequiredPlausible(d)
  IN  [is_valid |-> v.is_valid /\ passes,
       errors |-> IF passes THEN v.errors ELSE Append(v.errors, "plausibility"),
       improvement_suggestions |->
         IF passes THEN v.improvement_suggestions
         ELSE Append(v.improvement_suggestions, "plausibility"),
       quality_checks |->
         [n \in DOMAIN v.quality_checks \cup {"plausibility"} |->
            IF n = "plausibility" THEN [passes |-> passes, reasoning |-> ~passes]
            ELSE v.quality_checks[n]]]

\* Which of the three distractors of a question have a text.
DistractorTexts ==
  {d \in [1..3 -> BOOLEAN] : Cardinality({i \in 1..3 : ~d[i]}) <= MaxEmptyDistractors}

\* validate_question, one rubric check per step.
RunQualityCheck ==
  /\ qpc = "checks"
  /\ LET check_name == required_checks[check_idx] IN
     \E r \in (IF check_name \in qc_prompts THEN CallOutcomes ELSE {NoCall}) :
       IF r.kind = "raise"
       THEN /\ qpc' = "raised"
            /\ UNCHANGED <<check_idx, v_result>>
       ELSE /\ v_result' = AfterCheck(v_result, check_name,
                             RunSpecificQualityCheck(check_name, qc_prompts, r))
            /\ check_idx' = IF check_idx < Len(required_checks)
                            THEN check_idx + 1 ELSE 1
            /\ qpc' = IF check_idx < Len(required_checks) THEN "checks"
                      ELSE "plausibility"
  /\ UNCHANGED <<qc_prompts, question, distractor_results>>
  /\ UNCHANGED <<distVars, quizVars, otherVars>>

\* validate_question, one distractor of the plausibility sub-check per step.
CheckDistractor ==
  /\ qpc = "plausibility"
  /\ IF "plausibility" \notin qc_prompts
     THEN /\ distractor_results' = NoPlausibilityPrompt
          /\ qpc' = "aggregate"
          /\ UNCHANGED check_idx
     ELSE \E r \in (IF question.distractors[check_idx]
                    THEN CallOutcomes ELSE {NoCall}) :
            IF r.kind = "raise"
            THEN /\ qpc' = "raised"
                 /\ UNCHANGED <<check_idx, distractor_results>>
            ELSE /\ distractor_results' =
                      Append(distractor_results,
                             DistractorResult(question.distractors[check_idx], r))
                 /\ check_idx' = IF check_idx < Len(distractor_ids)
                                 THEN check_idx + 1 ELSE 1
                 /\ qpc' = IF check_idx < Len(distractor_ids)
                           THEN "plausibility" ELSE "aggregate"
  /\ UNCHANGED <<qc_prompts, question, v_result>>
  /\ UNCHANGED <<distVars, quizVars, otherVars>>

\* validate_question: the plausibility verdict, and the return.
ReturnValidation ==
  /\ qpc = "aggregate"
  /\ v_result' = AfterPlausibility(v_result, question.difficulty, distractor_results)
  /\ qpc' = "returned"
  /\ UNCHANGED <<qc_prompts, question, check_idx, distractor_results>>
  /\ UNCHANGED <<distVars, quizVars, otherVars>>

(***************************************************************************)
(* QuizGenerator (src/main.py): the curriculum index built by load_data    *)
(* and its lookups.                                                        *)
(*                                                                         *)
(* A lesson is [lesson, standards], a passage [id, type, standards], and   *)
(* examples_data gives for every (standard, difficulty value) how many     *)
(* examples of type "reading" (or untyped) and of type "writing" exist.    *)
(***************************************************************************)
None == "None"

Levels == <<"1", "2", "3">>

DIFFICULTY_MAP == [easy |-> "1", medium |-> "2", hard |-> "3"]

NoPassage == [id |-> None, type |-> None, standards |-> {}]

Last(S) == CHOOSE i \in S : \A j \in S : j <= i

\* standards_by_lesson.get(name, []): a later lesson of the same name overwrites
StandardsByLesson(lessons, name) ==
  LET idx == {i \in 1..Len(lessons) : lessons[i].lesson = name}
  IN  IF idx = {} THEN <<>> ELSE lessons[Last(idx)].standards

get_standards_for_lesson(lessons, name) ==
  IF name = None THEN <<>> ELSE StandardsByLesson(lessons, name)

\* "if x not in acc: acc.append(x)" for every x of s, in order
RECURSIVE AppendNew(_, _)
AppendNew(acc, s) ==
  IF s = <<>> THEN acc
  ELSE AppendNew(IF Contains(acc, Head(s)) THEN acc ELSE Append(acc, Head(s)),
                 Tail(s))

\* The standards of the curriculum in the order the lessons introduce them.
RECURSIVE CurriculumOrder(_, _)
CurriculumOrder(lessons, acc) ==
  IF lessons = <<>> THEN acc
  ELSE CurriculumOrder(Tail(lessons), AppendNew(acc, Head(lessons).standards))

\* get_previous_standards returning all_standards[:standard_position],
\* without the standard itself.
get_previous_standards_exclusive(lessons, std) ==
  LET order == CurriculumOrder(lessons, <<>>)
      pos == {i \in 1..Len(order) : order[i] = std}
  IN  IF pos = {} THEN <<>> ELSE SubSeq(order, 1, Last(pos) - 1)

\* The standards before std in the curriculum, and std itself; empty when std
\* is not in the curriculum.
get_previous_standards(lessons, std) ==
  LET order == CurriculumOrder(lessons, <<>>)
      pos == {i \in 1..Len(order) : order[i] = std}
  IN  IF pos = {} THEN <<>> ELSE SubSeq(order, 1, Last(pos))

\* generate_quiz: the union, without repetition, of the previous standards of
\* the target standards.
RECURSIVE AllPreviousStandards(_, _, _)
AllPreviousStandards(lessons, stds, acc) ==
  IF stds = <<>> THEN acc
  ELSE AllPreviousStandards(lessons, Tail(stds),
         AppendNew(acc, get_previous_standards(lessons, Head(stds))))

PassagesByStandard(passages, std) ==
  SelectSeq(passages, LAMBDA p : std \in p.standards)

Range(s) == {s[i] : i \in 1..Len(s)}

CheckForWritingExamples(examples, std) ==
  \E l \in 1..Len(Levels) : examples[std][Levels[l]].writing > 0

\* generate_questions: how many examples a (standard, difficulty value) cell
\* offers for a passage type, after the filter by type and its fallback to all.
ExamplesFor(examples, std, difficulty_value, use_writing_examples) ==
  LET all_examples == examples[std][difficulty_value]
      typed == IF use_writing_examples THEN all_examples.writing
               ELSE all_examples.reading
  IN  IF typed > 0 THEN typed ELSE all_examples.reading + all_examples.writing

(***************************************************************************)
(* Passage selection.  Each operator gives the set of values the code's    *)
(* random.choice calls can lead to; NoPassage stands for None.             *)
(***************************************************************************)
\* The passages of the first standard whose id every other standard has too.
CommonPassages(passages, stds) ==
  {p \in Range(PassagesByStandard(passages, stds[1])) :
     \A i \in 2..Len(stds) :
        \E q \in Range(PassagesByStandard(passages, stds[i])) : q.id = p.id}

NonDraft(pool) == {p \in pool : p.type # "Draft"}

\* random.choice(pool), then the Draft gate: a Draft passage is kept when
\* writing examples exist for the standards of checked, else a non-Draft
\* passage of the pool is drawn, else there is no passage.
DraftGate(examples, pool, checked) ==
  UNION {IF selected_passage.type = "Draft"
         THEN IF \A i \in 1..Len(checked) :
                    CheckForWritingExamples(examples, checked[i])
              THEN {selected_passage}
              ELSE IF NonDraft(pool) # {} THEN NonDraft(pool) ELSE {NoPassage}
         ELSE {selected_passage}
         : selected_passage \in pool}

\* generate_quiz, lines 430-496: the passage common to all lesson standards.
CommonChoice(passages, examples, stds) ==
  IF Len(stds) <= 1 \/ CommonPassages(passages, stds) = {} THEN {NoPassage}
  ELSE DraftGate(examples, CommonPassages(passages, stds), stds)

\* generate_quiz, lines 498-530: a passage of the primary standard; NoPassage
\* stands for the return of the fallback quiz.
PrimaryChoice(passages, examples, primary_standard) ==
  IF PassagesByStandard(passages, primary_standard) = <<>> THEN {NoPassage}
  ELSE DraftGate(examples, Range(PassagesByStandard(passages, primary_standard)),
                 <<primary_standard>>)

\* The passages generate_quiz can go on with for the lesson standards stds.
QuizPassageChoice(passages, examples, stds) ==
  UNION {IF c # NoPassage THEN {c} ELSE PrimaryChoice(passages, examples, stds[1])
         : c \in CommonChoice(passages, examples, stds)}

\* select_passage(standard_id) for one standard id.
SelectPassageSingle(passages, examples, std) ==
  IF PassagesByStandard(passages, std) = <<>> THEN {NoPassage}
  ELSE DraftGate(examples, Range(PassagesByStandard(passages, std)), <<std>>)

\* select_passage(standard_id) for a list of standard ids: the Draft gate looks
\* at the first standard only, and without a result the single-standard case
\* of the first standard decides.
SelectPassageList(passages, examples, stds) ==
  IF stds = <<>> \/ PassagesByStandard(passages, stds[1]) = <<>> THEN {NoPassage}
  ELSE IF CommonPassages(passages, stds) = {}
       THEN SelectPassageSingle(passages, examples, stds[1])
       ELSE UNION {IF c # NoPassage THEN {c}
                   ELSE SelectPassageSingle(passages, examples, stds[1])
                   : c \in DraftGate(examples, CommonPassages(passages, stds),
                                     <<stds[1]>>)}

\* examples_data for one standard, by the kind of examples it has: none; two
\* reading examples per difficulty value; six reading examples, all of
\* difficulty value "1"; one reading and one writing example per value.
ExampleProfile(kind) ==
  [l \in {"1", "2", "3"} |->
     IF kind = "reading" THEN [reading |-> 2, writing |-> 0]
     ELSE IF kind = "easy" THEN [reading |-> IF l = "1" THEN 6 ELSE 0, writing |-> 0]
     ELSE IF kind = "both" THEN [reading |-> 1, writing |-> 1]
     ELSE [reading |-> 0, writing |-> 0]]

(***************************************************************************)
(* generate_quiz (src/main.py, 374-584).                                   *)
(*                                                                         *)
(* lesson_name is a lesson name or None; standard_id is None, one id or a  *)
(* list of ids, written [kind, ids].  A quiz document is written           *)
(* [passage, questions, metadata]; of the metadata the model keeps         *)
(* lesson_name, difficulty, num_questions, num_questions_generated and     *)
(* whether an error string is present.                                     *)
(***************************************************************************)
NoStandard == [kind |-> "none", ids |-> <<>>]
OneStandard(s) == [kind |-> "str", ids |-> <<s>>]
StandardList(l) == [kind |-> "list", ids |-> l]

\* Python truth of standard_id: None and the empty list are false.
Truthy(sid) == sid.kind = "str" \/ (sid.kind = "list" /\ sid.ids # <<>>)

NoQuiz ==
  [passage |-> [id |-> None, type |-> None], questions |-> <<>>,
   metadata |-> [lesson_name |-> None, difficulty |-> 0, num_questions |-> 0,
                 num_questions_generated |-> 0, error |-> FALSE]]

\* _handle_missing_data called without the lesson name.
HandleMissingDataUnnamed(passages, name) ==
  [passage |-> IF passages # <<>>
               THEN [id |-> passages[1].id, type |-> passages[1].type]
               ELSE [id |-> "fallback", type |-> "Text"],
   questions |-> <<>>,
   metadata |-> [lesson_name |-> None, difficulty |-> 1, num_questions |-> 0,
                 num_questions_generated |-> 0, error |-> TRUE]]

\* _handle_missing_data: the first loaded passage or the placeholder passage,
\* no questions, and the error string.
HandleMissingData(passages, name) ==
  [passage |-> IF passages # <<>>
               THEN [id |-> passages[1].id, type |-> passages[1].type]
               ELSE [id |-> "fallback", type |-> "Text"],
   questions |-> <<>>,
   metadata |-> [lesson_name |-> name, difficulty |-> 1, num_questions |-> 0,
                 num_questions_generated |-> 0, error |-> TRUE]]

\* format_quiz_output and the metadata of lines 571-578.
FormatQuiz(p, questions, name, d, n) ==
  [passage |-> [id |-> p.id, type |-> p.type],
   questions |-> questions,
   metadata |-> [lesson_name |-> name, difficulty |-> d, num_questions |-> n,
                 num_questions_generated |-> Len(questions), error |-> FALSE]]

\* Line 391: the f-string concatenates 'Standard: ' with standard_id when
\* lesson_name is None, a TypeError unless standard_id is a string; the
\* statement stands before the try block.
LogRaises(name, sid) == name = None /\ sid.kind # "str"

LogRequest ==
  /\ gpc = "log"
  /\ gpc' = IF LogRaises(lesson_name, standard_id) THEN "raised" ELSE "standards"
  /\ UNCHANGED <<lessons_data, passages_data, examples_data, quality_control,
                 lesson_name, standard_id, passage, all_questions, slot,
                 attempt, attempts_made, llm_faults, llm_called, last_attempt, last_prompt, quiz,
                 sp_arg, sp_result>>
  /\ UNCHANGED <<distVars, qcVars, otherVars>>

\* Lines 394-411: the target standards of the request.
TargetStandards(lessons, name, sid) ==
  IF name # None /\ ~Truthy(sid) THEN get_standards_for_lesson(lessons, name)
  ELSE IF Truthy(sid) THEN sid.ids
  ELSE <<>>

\* Lines 394-426.
ResolveStandards ==
  /\ gpc = "standards"
  /\ LET stds == TargetStandards(lessons_data, lesson_name, standard_id) IN
     IF stds = <<>>
     THEN /\ quiz' = HandleMissingData(passages_data, lesson_name)
          /\ gpc' = "fallback"
          /\ UNCHANGED <<lesson_standards, all_standards>>
     ELSE /\ lesson_standards' = stds
          /\ all_standards' = AllPreviousStandards(lessons_data, stds, <<>>)
          /\ gpc' = "passage"
          /\ UNCHANGED quiz
  /\ UNCHANGED <<lessons_data, passages_data, examples_data, quality_control,
                 lesson_name, standard_id, passage, all_questions, slot,
                 attempt, attempts_made, llm_faults, llm_called, last_attempt, last_prompt, sp_arg,
                 sp_result>>
  /\ UNCHANGED <<num_questions, difficulty, dpc, num_easy, num_medium, num_hard,
                 questions_per_standard, qps_keys, questions_left,
                 prioritized_standards, result, tiers_left>>
  /\ UNCHANGED <<qcVars, otherVars>>

\* Lines 428-538: the passage, or the fallback quiz; with a passage
\* distribute_questions is called next.
SelectQuizPassage ==
  /\ gpc = "passage"
  /\ \E c \in QuizPassageChoice(passages_data, examples_data, lesson_standards) :
       IF c = NoPassage
       THEN /\ quiz' = HandleMissingData(passages_data, lesson_name)
            /\ gpc' = "fallback"
            /\ UNCHANGED <<passage, dpc>>
       ELSE /\ passage' = c
            /\ gpc' = "distribute"
            /\ dpc' = "tiers"
            /\ UNCHANGED quiz
  /\ UNCHANGED <<lessons_data, passages_data, examples_data, quality_control,
                 lesson_name, standard_id, all_questions, slot,
                 attempt, attempts_made, llm_faults, llm_called, last_attempt, last_prompt, sp_arg,
                 sp_result>>
  /\ UNCHANGED <<num_questions, difficulty, lesson_standards, all_standards,
                 num_easy, num_medium, num_hard,
                 questions_per_standard, qps_keys, questions_left,
                 prioritized_standards, result, tiers_left>>
  /\ UNCHANGED <<qcVars, otherVars>>

(***************************************************************************)
(* generate_questions and generate_question_for_standard_and_difficulty.   *)
(***************************************************************************)
\* SlotsFrom with "range(count - 1)" for "range(count)".
RECURSIVE SlotsFromShort(_, _, _, _, _)
SlotsFromShort(k, res, keys, examples, use_writing_examples) ==
  IF k > Len(keys) * Len(Tiers) THEN <<>>
  ELSE LET standard == keys[((k - 1) \div Len(Tiers)) + 1]
           difficulty_name == Tiers[((k - 1) % Len(Tiers)) + 1]
           count == res[standard][difficulty_name]
           difficulty_value == DIFFICULTY_MAP[difficulty_name]
       IN  (IF count > 0 /\ ExamplesFor(examples, standard, difficulty_value,
                                         use_writing_examples) > 0
            THEN [i \in 1..(count - 1) |->
                    [standard |-> standard, difficulty |-> difficulty_value]]
            ELSE <<>>)
           \o SlotsFromShort(k + 1, res, keys, examples, use_writing_examples)

\* The question slots generate_questions works through, in its order: for
\* every standard of the distribution and every tier with a positive count and
\* at least one example, count slots.
RECURSIVE SlotsFrom(_, _, _, _, _)
SlotsFrom(k, res, keys, examples, use_writing_examples) ==
  IF k > Len(keys) * Len(Tiers) THEN <<>>
  ELSE LET standard == keys[((k - 1) \div Len(Tiers)) + 1]
           difficulty_name == Tiers[((k - 1) % Len(Tiers)) + 1]
           count == res[standard][difficulty_name]
           difficulty_value == DIFFICULTY_MAP[difficulty_name]
       IN  (IF count > 0 /\ ExamplesFor(examples, standard, difficulty_value,
                                         use_writing_examples) > 0
            THEN [i \in 1..count |->
                    [standard |-> standard, difficulty |-> difficulty_value]]
            ELSE <<>>)
           \o SlotsFrom(k + 1, res, keys, examples, use_writing_examples)

SlotList == SlotsFrom(1, result, qps_keys, examples_data, passage.type = "Draft")

\* generate_questions is entered with the distribution distribute_questions
\* returned.
StartGeneration ==
  /\ gpc = "distribute"
  /\ dpc = "done"
  /\ all_questions' = <<>>
  /\ slot' = 1
  /\ attempt' = 1
  /\ gpc' = IF SlotList = <<>> THEN "format" ELSE "generate"
  /\ UNCHANGED <<lessons_data, passages_data, examples_data, quality_control,
                 lesson_name, standard_id, passage, attempts_made, llm_faults,
                 llm_called, last_attempt, last_prompt, quiz, sp_arg, sp_result>>
  /\ UNCHANGED <<distVars, qcVars, otherVars>>

\* validate_question when each of its LLM calls gives the reply r.
RECURSIVE ChecksFrom(_, _, _, _)
ChecksFrom(v, i, prompts, r) ==
  IF i > Len(required_checks) THEN v
  ELSE \* the CHOOSE makes the step's result a value before the next step uses it
       ChecksFrom(CHOOSE w \in {AfterCheck(v, required_checks[i],
                    RunSpecificQualityCheck(required_checks[i], prompts, r))} : TRUE,
                  i + 1, prompts, r)

ValidateQuestion(q, prompts, r) ==
  AfterPlausibility(ChecksFrom(NewValidation, 1, prompts, r), q.difficulty,
    IF "plausibility" \notin prompts THEN NoPlausibilityPrompt
    ELSE [i \in 1..Len(distractor_ids) |-> DistractorResult(q.distractors[i], r)])

\* The quality-control object of the generator: the real one ("real"), one
\* of the two test doubles (every question valid; every question invalid and
\* no improvement), or the real one with a validate_question whose verdict
\* is free (QCStandIn).
QCDoubles == {"accepting", "rejecting"}

\* The replies that carry their score in <answer> tags.
AnswerReplies == {r \in Replies : r.form = "answer"}

\* The values of validation_result["is_valid"] a validate_question call that
\* returns can give.
Verdicts(qc, q, prompts) ==
  IF qc = "accepting" THEN {TRUE}
  ELSE IF qc = "rejecting" THEN {FALSE}
  ELSE IF qc = QCStandIn THEN BOOLEAN
  ELSE {ValidateQuestion(q, prompts, r).is_valid : r \in AnswerReplies}

\* The fields parse_claude_response requires of a question.
required_fields ==
  {"question", "correct_answer", "distractor1", "distractor2", "distractor3"}

\* _extract_improved_question returns the first JSON object of the reply as
\* it is: the fields of the object of a reply that has all five, and of a
\* reply whose object lacks the last distractor.
ExtractedFields == {required_fields, required_fields \ {"distractor3"}}

\* What one iteration of the attempt loop did: how it ended, how many
\* generation prompts it sent, how often the generator called
\* validate_question and improve_question, how often improve_question called
\* validate_question itself and whether it extracted a question, and the
\* is_valid of the generator's latest validation.
AttemptRun(outcome, validations, improvements, inner, extracted, is_valid) ==
  [outcome |-> outcome, prompts |-> 1, validations |-> validations,
   improvements |-> improvements, inner_validations |-> inner,
   extracted |-> extracted, is_valid |-> is_valid, fields |-> required_fields]

\* The run whose question has the given fields.
WithFields(run, fields) ==
  [k \in DOMAIN run |-> IF k = "fields" THEN fields ELSE run[k]]

NoAttempt ==
  [outcome |-> "none", prompts |-> 0, validations |-> 0, improvements |-> 0,
   inner_validations |-> 0, extracted |-> FALSE, is_valid |-> FALSE,
   fields |-> {}]

\* The question with the fields f that improve_question extracted for the
\* question q: standard and difficulty are carried over.
ImprovedQuestion(q, f) ==
  [q EXCEPT !.distractors = [i \in 1..3 |-> distractor_ids[i] \in f]]

\* improve_question, a call that returns: whether a question was extracted
\* from the reply and with which fields, how often validate_question was
\* called, and whether a question (TRUE) or None is returned.  The real one
\* extracts a question from one reply, validates it and gives None unless it
\* is valid; the test doubles give None.
ImproveResults(qc, q, prompts) ==
  IF qc \in QCDoubles
  THEN {[extracted |-> FALSE, validations |-> 0, question |-> FALSE,
         fields |-> {}]}
  ELSE {[extracted |-> FALSE, validations |-> 0, question |-> FALSE,
         fields |-> {}]}
       \cup UNION {{[extracted |-> TRUE, validations |-> 1, question |-> v,
                     fields |-> f]
                    : v \in Verdicts(qc, ImprovedQuestion(q, f), prompts)}
                   : f \in ExtractedFields}

\* AttemptResults with the question returned whatever validate_question says.
AttemptResultsUnchecked(qc, q, prompts) ==
  {AttemptRun("valid", 1, 0, 0, FALSE, TRUE)}

\* One attempt in which no call raises and the generation reply parses: what
\* becomes of the parsed question.
AttemptResults(qc, q, prompts) ==
  UNION {IF valid THEN {AttemptRun("valid", 1, 0, 0, FALSE, TRUE)}
         ELSE UNION {IF improved.question
                     THEN {WithFields(
                             AttemptRun(IF v2 THEN "improved" ELSE "invalid", 2, 1,
                                        improved.validations, improved.extracted,
                                        v2),
                             improved.fields)
                           : v2 \in Verdicts(qc, ImprovedQuestion(q, improved.fields),
                                             prompts)}
                     ELSE {AttemptRun("invalid", 1, 1, improved.validations,
                                      improved.extracted, FALSE)}
                     : improved \in ImproveResults(qc, q, prompts)}
         : valid \in Verdicts(qc, q, prompts)}

\* The attempts that end in the except clause or in "continue": the
\* generation call raises after its retries or its reply does not parse, or,
\* unless the quality control is a test double, a call raises in the
\* validation of the improved question.
FaultRuns(qc) ==
  {AttemptRun("fault", 0, 0, 0, FALSE, FALSE)}
  \cup (IF qc \in QCDoubles THEN {}
        ELSE {AttemptRun("fault", 2, 1, 1, TRUE, FALSE)})

\* What one iteration of "for attempt in range(max_attempts)" can end in: a
\* fault while faults are left, or a result of AttemptResults.
AttemptOutcomes(qc, q, prompts, faults) ==
  AttemptResults(qc, q, prompts)
  \cup (IF faults < MaxLLMFaults THEN FaultRuns(qc) ELSE {})

\* Whether the attempt loop is left after attempt number k (from 1): by the
\* return of a question, or because range(max_attempts) is used up.
AttemptEndsOnReturn(returns, k) == returns

AttemptEnds(returns, k) == returns \/ k >= max_attempts

\* "return question" for "continue" and for the end of the except clause.
ReturnsQuestionAlways(outcome) == TRUE

\* Lines 1018 and 1044: the attempts that return a question.
ReturnsQuestion(outcome) == outcome \in {"valid", "improved"}

\* PromptEntries without the question accepted last.
PromptEntriesButLast(previous_questions) ==
  [i \in 1..(Len(previous_questions) - 1) |->
     [number |-> i, question |-> previous_questions[i].serial]]

\* build_prompt, "for i, q in enumerate(previous_questions)": the numbered
\* entries of the prompt, one for each question of the list, in its order.
PromptEntries(previous_questions) ==
  [i \in 1..Len(previous_questions) |->
     [number |-> i, question |-> previous_questions[i].serial]]

\* One iteration of the attempt loop for the current slot, and with it, at
\* the slot's end, the bookkeeping of generate_questions.
Attempt ==
  /\ gpc = "generate"
  /\ llm_called' = TRUE
  /\ attempts_made' = attempts_made + 1
  /\ LET standard == SlotList[slot].standard
         difficulty_level == SlotList[slot].difficulty
     IN  \E o \in AttemptOutcomes(quality_control,
                    [difficulty |-> difficulty_level,
                     distractors |-> <<TRUE, TRUE, TRUE>>],
                    qc_prompts, llm_faults) :
           LET returns == ReturnsQuestion(o.outcome)
               ends == AttemptEnds(returns, attempt)
           IN  /\ last_attempt' = o
               /\ last_prompt' = PromptEntries(all_questions)
               /\ llm_faults' = IF o.outcome = "fault" THEN llm_faults + 1
                                ELSE llm_faults
               /\ all_questions' =
                    IF returns
                    THEN Append(all_questions,
                                [standard |-> standard,
                                 difficulty |-> difficulty_level,
                                 fields |-> o.fields,
                                 serial |-> attempts_made + 1])
                    ELSE all_questions
               /\ attempt' = IF ends THEN 1 ELSE attempt + 1
               /\ slot' = IF ends THEN slot + 1 ELSE slot
               /\ gpc' = IF ends /\ slot >= Len(SlotList) THEN "format"
                         ELSE "generate"
  /\ UNCHANGED <<lessons_data, passages_data, examples_data, quality_control,
                 lesson_name, standard_id, passage, quiz, sp_arg, sp_result>>
  /\ UNCHANGED <<distVars, qcVars, otherVars>>

\* Lines 560-580: explanations (their failures are swallowed and leave the
\* questions as they are), format_quiz_output and the metadata.
FinishQuiz ==
  /\ gpc = "format"
  /\ quiz' = FormatQuiz(passage, all_questions, lesson_name, difficulty,
                        num_questions)
  /\ gpc' = "done"
  /\ UNCHANGED <<lessons_data, passages_data, examples_data, quality_control,
                 lesson_name, standard_id, passage, all_questions, slot,
                 attempt, attempts_made, llm_faults, llm_called, last_attempt, last_prompt, sp_arg,
                 sp_result>>
  /\ UNCHANGED <<distVars, qcVars, otherVars>>

(***************************************************************************)
(* select_passage called directly.                                         *)
(***************************************************************************)
CallSelectPassage ==
  /\ gpc = "select"
  /\ sp_result' \in (IF sp_arg.kind = "list"
                     THEN SelectPassageList(passages_data, examples_data, sp_arg.ids)
                     ELSE SelectPassageSingle(passages_data, examples_data,
                                              sp_arg.ids[1]))
  /\ gpc' = "selected"
  /\ UNCHANGED <<lessons_data, passages_data, examples_data, quality_control,
                 lesson_name, standard_id, passage, all_questions, slot,
                 attempt, attempts_made, llm_faults, llm_called, last_attempt, last_prompt, quiz, sp_arg>>
  /\ UNCHANGED <<distVars, qcVars, otherVars>>

(***************************************************************************)
(* get_previous_standards called directly.                                 *)
(***************************************************************************)
GetPreviousStandards ==
  /\ gpc = "previous"
  /\ gps_result' = get_previous_standards(lessons_data, gps_standard)
  /\ gpc' = "previous_returned"
  /\ UNCHANGED <<lessons_data, passages_data, examples_data, quality_control,
                 lesson_name, standard_id, passage, all_questions, slot,
                 attempt, attempts_made, llm_faults, llm_called, last_attempt, last_prompt,
                 quiz, sp_arg, sp_result>>
  /\ UNCHANGED <<gps_standard, lessons_file, gsl_result, parseVars, retryVars>>
  /\ UNCHANGED <<distVars, qcVars>>

(***************************************************************************)
(* parse_claude_response (src/main.py, 1756-1820).                         *)
(*                                                                         *)
(* A reply is a JSON object with the five required fields, alone, in a     *)
(* code fence or not, and with prose around it that contains a brace or    *)
(* not.  A field value is a string over a letter, the double quote and     *)
(* the newline; the reply's text holds it JSON-encoded.                    *)
(***************************************************************************)
ValueChars == {"a", "\"", "\n"}

\* json.dumps of a string, without the enclosing quotes
RECURSIVE JsonEncode(_)
JsonEncode(v) ==
  IF v = <<>> THEN <<>>
  ELSE (IF Head(v) = "\"" THEN <<"\\", "\"">>
        ELSE IF Head(v) = "\n" THEN <<"\\", "n">>
        ELSE <<Head(v)>>) \o JsonEncode(Tail(v))

\* json.loads of the text of a JSON string
RECURSIVE JsonDecode(_)
JsonDecode(t) ==
  IF t = <<>> THEN <<>>
  ELSE IF Head(t) = "\\" /\ Len(t) >= 2
       THEN <<IF t[2] = "n" THEN "\n" ELSE t[2]>> \o JsonDecode(Tail(Tail(t)))
       ELSE <<Head(t)>> \o JsonDecode(Tail(t))

\* The group ([^"]*) of the regular expression "field"\s*:\s*"([^"]*)": the
\* text up to the first double quote, as it stands.
RECURSIVE UpToQuote(_)
UpToQuote(t) ==
  IF t = <<>> \/ Head(t) = "\"" THEN <<>>
  ELSE <<Head(t)>> \o UpToQuote(Tail(t))

NoParse == [status |-> "none", fields |-> [f \in required_fields |-> <<>>]]

\* Lines 1798-1812: the five fields by regular expression.
ParseByRegex(r) ==
  [status |-> "question",
   fields |-> [f \in required_fields |-> UpToQuote(JsonEncode(r.fields[f]))]]

\* Lines 1767-1796: json.loads of the fenced block, or of the text from the
\* first "{" to the last "}".
ParseByJson(r) ==
  [status |-> "question",
   fields |-> [f \in required_fields |-> JsonDecode(JsonEncode(r.fields[f]))]]

\* The fenced block is found whatever stands around it; the text from the
\* first "{" to the last "}" is the object unless the prose has a brace.
parse_claude_response(r) ==
  IF r.fenced \/ r.noise # "braces" THEN ParseByJson(r) ELSE ParseByRegex(r)

ParseClaudeResponse ==
  /\ gpc = "parse"
  /\ parsed' = parse_claude_response(response)
  /\ gpc' = "parsed"
  /\ UNCHANGED <<lessons_data, passages_data, examples_data, quality_control,
                 lesson_name, standard_id, passage, all_questions, slot,
                 attempt, attempts_made, llm_faults, llm_called, last_attempt, last_prompt,
                 quiz, sp_arg, sp_result>>
  /\ UNCHANGED <<response, indexVars, retryVars>>
  /\ UNCHANGED <<distVars, qcVars>>

(***************************************************************************)
(* with_retry (src/utils.py, 14-118): one call of the asynchronous         *)
(* wrapper.  exceptions_to_retry is "all" when the list holds Exception    *)
(* and "listed" otherwise; an invocation returns ("ok"), raises an         *)
(* exception of the list ("listed") or one outside it ("unlisted"), or is  *)
(* cut off by asyncio.wait_for ("timeout").  The wrapped function is one   *)
(* of the two Claude callers (src/main.py 1067-1102, quality_control.py    *)
(* 382-425), whose only await is asyncio.to_thread(messages.create):       *)
(* wait_for cancels the awaiting coroutine, the worker thread is not       *)
(* interrupted and its request goes on.  in_flight counts the requests of  *)
(* ended attempts that are still running in their threads.                 *)
(***************************************************************************)
InvocationOutcomes(t, etr) ==
  {"ok", "listed"}
  \cup (IF t # None THEN {"timeout"} ELSE {})
  \cup (IF etr = "listed" THEN {"unlisted"} ELSE {})

NoResult == [kind |-> "none", attempt |-> 0, error |-> "none"]

\* "if attempt < max_retries - 1" holding on every attempt.
ShouldWaitAlways(k, n) == TRUE

\* "if attempt < max_retries - 1": sleep and go on, else raise.
ShouldWait(k, n) == k < n - 1

\* The worker-thread requests left running once an invocation has ended
\* with outcome o: a timeout abandons the thread, every other outcome comes
\* out of the finished thread (or is raised before it is started).
AbandonedRequests(n, o) == IF o = "timeout" THEN n + 1 ELSE n

\* One iteration of "for attempt in range(max_retries)".
RetryInvoke ==
  /\ rpc = "loop"
  /\ retry_attempt < max_retries
  /\ invocations' = invocations + 1
  /\ \E o \in InvocationOutcomes(timeout, exceptions_to_retry) :
       /\ in_flight' = AbandonedRequests(in_flight, o)
       /\ IF o = "ok"
          THEN /\ rpc' = "returned"
               /\ retry_result' = [kind |-> "value", attempt |-> retry_attempt,
                                   error |-> "none"]
               /\ UNCHANGED <<retry_attempt, waits, error_messages>>
          ELSE IF o = "unlisted"
          THEN /\ rpc' = "raised"
               /\ retry_result' = [kind |-> "error", attempt |-> retry_attempt,
                                   error |-> o]
               /\ UNCHANGED <<retry_attempt, waits, error_messages>>
          ELSE /\ error_messages' =
                    Append(error_messages, [attempt |-> retry_attempt, error |-> o])
               /\ IF ShouldWait(retry_attempt, max_retries)
                  THEN /\ waits' = waits + 1
                       /\ retry_attempt' = retry_attempt + 1
                       /\ UNCHANGED <<rpc, retry_result>>
                  ELSE /\ rpc' = "raised"
                       /\ retry_result' = [kind |-> "error",
                                           attempt |-> retry_attempt, error |-> o]
                       /\ UNCHANGED <<retry_attempt, waits>>
  /\ UNCHANGED <<max_retries, timeout, exceptions_to_retry>>
  /\ UNCHANGED <<distVars, qcVars, quizVars, indexVars, parseVars>>

\* range(max_retries) is used up without a return or a raise: the wrapper
\* falls off its end and returns None.
RetryLoopEnds ==
  /\ rpc = "loop"
  /\ retry_attempt >= max_retries
  /\ rpc' = "returned"
  /\ retry_result' = NoResult
  /\ UNCHANGED <<max_retries, timeout, exceptions_to_retry, retry_attempt,
                 invocations, in_flight, waits, error_messages>>
  /\ UNCHANGED <<distVars, qcVars, quizVars, indexVars, parseVars>>

\* messages.create returns in an abandoned worker thread: the request of a
\* timed-out attempt ends on its own, at any moment of the wrapper's run or
\* after it.
RequestCompletes ==
  /\ in_flight > 0
  /\ in_flight' = in_flight - 1
  /\ UNCHANGED <<rpc, max_retries, timeout, exceptions_to_retry, retry_attempt,
                 invocations, waits, error_messages, retry_result>>
  /\ UNCHANGED <<distVars, qcVars, quizVars, indexVars, parseVars>>

(***************************************************************************)
(* load_data, the lessons file, and get_standards_for_lesson.  A standards *)
(* text is the sequence of its fields between the commas.                  *)
(***************************************************************************)
\* std.strip()
Strip(field) ==
  IF field \in {"A", " A"} THEN "A"
  ELSE IF field \in {"B", "B "} THEN "B"
  ELSE IF field \in {"", " "} THEN ""
  ELSE field

\* [std.strip() for std in standards.split(',') if std.strip()]
RECURSIVE SplitStandards(_)
SplitStandards(fields) ==
  IF fields = <<>> THEN <<>>
  ELSE IF Strip(Head(fields)) # "" THEN <<Strip(Head(fields))>> \o SplitStandards(Tail(fields))
  ELSE SplitStandards(Tail(fields))

\* for lesson_data in self.lessons_data: entries without a lesson name are
\* skipped, the others mapped to their standards list.
RECURSIVE LoadLessons(_)
LoadLessons(file) ==
  IF file = <<>> THEN <<>>
  ELSE IF Head(file).lesson = None THEN LoadLessons(Tail(file))
  ELSE <<[lesson |-> Head(file).lesson,
          standards |-> SplitStandards(Head(file).standards)]>>
       \o LoadLessons(Tail(file))

LoadData ==
  /\ gpc = "load"
  /\ lessons_data' = LoadLessons(lessons_file)
  /\ gpc' = "loaded"
  /\ UNCHANGED <<passages_data, examples_data, quality_control,
                 lesson_name, standard_id, passage, all_questions, slot,
                 attempt, attempts_made, llm_faults, llm_called, last_attempt, last_prompt,
                 quiz, sp_arg, sp_result>>
  /\ UNCHANGED <<indexVars, parseVars, retryVars>>
  /\ UNCHANGED <<distVars, qcVars>>

GetStandardsForLesson ==
  /\ gpc = "loaded"
  /\ gsl_result' = get_standards_for_lesson(lessons_data, lesson_name)
  /\ gpc' = "lesson_returned"
  /\ UNCHANGED <<lessons_data, passages_data, examples_data, quality_control,
                 lesson_name, standard_id, passage, all_questions, slot,
                 attempt, attempts_made, llm_faults, llm_called, last_attempt, last_prompt,
                 quiz, sp_arg, sp_result>>
  /\ UNCHANGED <<gps_standard, gps_result, lessons_file, parseVars, retryVars>>
  /\ UNCHANGED <<distVars, qcVars>>

(***************************************************************************)
(* Initial values of the parts a specification does not run.               *)
(***************************************************************************)
DistIdle ==
  /\ num_questions = 1
  /\ difficulty = 1
  /\ lesson_standards = <<>>
  /\ all_standards = <<>>
  /\ dpc = "idle"
  /\ num_easy = 0 /\ num_medium = 0 /\ num_hard = 0
  /\ questions_per_standard = [s \in Standards |-> 0]
  /\ qps_keys = <<>>
  /\ questions_left = 0
  /\ prioritized_standards = <<>>
  /\ result = [s \in Standards |-> ZeroCounts]
  /\ tiers_left = ZeroCounts

QCIdle ==
  /\ qpc = "idle"
  /\ qc_prompts = required_prompts
  /\ question = [difficulty |-> "1", distractors |-> <<TRUE, TRUE, TRUE>>]
  /\ check_idx = 1
  /\ v_result = NewValidation
  /\ distractor_results = <<>>

QuizIdle ==
  /\ lessons_data = <<>>
  /\ passages_data = <<>>
  /\ examples_data = [s \in Standards |-> ExampleProfile("none")]
  /\ quality_control = "real"
  /\ lesson_name = None
  /\ standard_id = NoStandard
  /\ gpc = "idle"
  /\ passage = NoPassage
  /\ all_questions = <<>>
  /\ slot = 1
  /\ attempt = 1
  /\ attempts_made = 0
  /\ llm_faults = 0
  /\ llm_called = FALSE
  /\ last_attempt = NoAttempt
  /\ last_prompt = <<>>
  /\ quiz = NoQuiz
  /\ sp_arg = NoStandard
  /\ sp_result = NoPassage

IndexIdle ==
  /\ gps_standard = None
  /\ gps_result = <<>>
  /\ lessons_file = <<>>
  /\ gsl_result = <<>>

NoResponse ==
  [fenced |-> FALSE, noise |-> "none", fields |-> [f \in required_fields |-> <<>>]]

ParseIdle ==
  /\ response = NoResponse
  /\ parsed = NoParse

RetryIdle ==
  /\ rpc = "idle"
  /\ max_retries = 0
  /\ timeout = None
  /\ exceptions_to_retry = "all"
  /\ retry_attempt = 0
  /\ invocations = 0
  /\ in_flight = 0
  /\ waits = 0
  /\ error_messages = <<>>
  /\ retry_result = NoResult

(***************************************************************************)
(* SpecDist: distribute_questions on arbitrary arguments.                  *)
(***************************************************************************)
InitDist ==
  /\ num_questions \in 1..MaxNumQuestions
  /\ difficulty \in 1..3
  /\ lesson_standards \in LessonLists
  /\ all_standards \in PrevLists
  /\ dpc = "tiers"
  /\ num_easy = 0 /\ num_medium = 0 /\ num_hard = 0
  /\ questions_per_standard = [s \in Standards |-> 0]
  /\ qps_keys = <<>>
  /\ questions_left = 0
  /\ prioritized_standards = <<>>
  /\ result = [s \in Standards |-> ZeroCounts]
  /\ tiers_left = ZeroCounts
  /\ QCIdle
  /\ QuizIdle
  /\ IndexIdle /\ ParseIdle /\ RetryIdle

NextDist ==
  \/ TierSizing
  \/ AssignMinimum
  \/ WeightedStep
  \/ EvenStep
  \/ AssignTiers
  \/ RedistributeLeftover

SpecDist == InitDist /\ [][NextDist]_vars

(***************************************************************************)
(* SpecQC: validate_question on an arbitrary question, with arbitrary      *)
(* replies, under a prompt catalogue that lacks at most MaxMissingPrompts  *)
(* of the required templates.                                              *)
(***************************************************************************)
PromptCatalogues ==
  {required_prompts \ m : m \in {x \in SUBSET required_prompts :
                                   Cardinality(x) <= MaxMissingPrompts}}

Difficulties == {"easy", "medium", "hard", "1", "2", "3"}

InitQC ==
  /\ DistIdle
  /\ qpc = "checks"
  /\ qc_prompts \in PromptCatalogues
  /\ question \in [difficulty : Difficulties, distractors : DistractorTexts]
  /\ check_idx = 1
  /\ v_result = NewValidation
  /\ distractor_results = <<>>
  /\ QuizIdle
  /\ IndexIdle /\ ParseIdle /\ RetryIdle

NextQC ==
  \/ RunQualityCheck
  \/ CheckDistractor
  \/ ReturnValidation

SpecQC == InitQC /\ [][NextQC]_vars

(***************************************************************************)
(* Spec: generate_quiz on a request, over small curricula.                 *)
(***************************************************************************)
\* Two lessons: "L0" introduces the earlier standard "P" or nothing, "L1" the
\* standards a request for it targets.
Curricula ==
  {<<[lesson |-> "L0", standards |-> s0], [lesson |-> "L1", standards |-> s1]>> :
     s0 \in {<<>>, <<"P">>},
     s1 \in {<<>>, <<"A">>, <<"A", "B">>}}

Text(id, stds) == [id |-> id, type |-> "Text", standards |-> stds]
Draft(id, stds) == [id |-> id, type |-> "Draft", standards |-> stds]

QuizPools ==
  {<<>>, <<Text("p1", {"A", "B"})>>, <<Draft("p1", {"A", "B"}), Text("p2", {"A"})>>}

QuizCatalogues ==
  {[s \in Standards |-> ExampleProfile(IF s = "A" THEN a
                                       ELSE IF s \in {"B", "P"} THEN o
                                       ELSE "none")] :
     a \in {"easy", "both"}, o \in {"none", "reading"}}

LessonNames == {None, "L1", "L9"}
StandardIds == {NoStandard, OneStandard("A"), StandardList(<<"A", "B">>)}

InitQuiz ==
  /\ lessons_data \in Curricula
  /\ passages_data \in QuizPools
  /\ examples_data \in QuizCatalogues
  /\ quality_control \in {"real", QCStandIn} \cup QCDoubles
  /\ lesson_name \in LessonNames
  /\ standard_id \in StandardIds
  /\ num_questions \in QuizSizes(quality_control)
  /\ difficulty \in 1..3
  /\ gpc = "log"
  /\ passage = NoPassage
  /\ all_questions = <<>>
  /\ slot = 1
  /\ attempt = 1
  /\ attempts_made = 0
  /\ llm_faults = 0
  /\ llm_called = FALSE
  /\ last_attempt = NoAttempt
  /\ last_prompt = <<>>
  /\ quiz = NoQuiz
  /\ sp_arg = NoStandard
  /\ sp_result = NoPassage
  /\ lesson_standards = <<>>
  /\ all_standards = <<>>
  /\ dpc = "idle"
  /\ num_easy = 0 /\ num_medium = 0 /\ num_hard = 0
  /\ questions_per_standard = [s \in Standards |-> 0]
  /\ qps_keys = <<>>
  /\ questions_left = 0
  /\ prioritized_standards = <<>>
  /\ result = [s \in Standards |-> ZeroCounts]
  /\ tiers_left = ZeroCounts
  /\ QCIdle
  /\ IndexIdle /\ ParseIdle /\ RetryIdle

Next ==
  \/ LogRequest
  \/ ResolveStandards
  \/ SelectQuizPassage
  \/ TierSizing
  \/ AssignMinimum
  \/ WeightedStep
  \/ EvenStep
  \/ AssignTiers
  \/ RedistributeLeftover
  \/ StartGeneration
  \/ Attempt
  \/ FinishQuiz

Spec == InitQuiz /\ [][Next]_vars

\* generate_quiz is one sequential coroutine: whenever it has a next step,
\* it takes it, every transport call returning, failing or timing out.
SpecLive == InitQuiz /\ [][Next]_vars /\ WF_vars(Next)

(***************************************************************************)
(* SpecSelect: select_passage on an arbitrary argument, and the passage    *)
(* selection of generate_quiz on arbitrary lesson standards, over the      *)
(* pools of at most MaxPassages passages.                                  *)
(***************************************************************************)
PassageKinds ==
  {[id |-> None, type |-> t, standards |-> s] :
     t \in {"Text", "Draft"}, s \in {{"A"}, {"B"}, {"A", "B"}}}

\* Passage ids are the positions in the pool.
PassageIds == <<"p1", "p2", "p3">>

Pools ==
  {[i \in 1..Len(k) |-> [k[i] EXCEPT !.id = PassageIds[i]]] :
     k \in SeqsUpTo(PassageKinds, 0, MaxPassages)}

SelectCatalogues ==
  {[s \in Standards |-> ExampleProfile(IF s = "A" THEN a
                                       ELSE IF s = "B" THEN b ELSE "none")] :
     a \in {"reading", "both"}, b \in {"reading", "both"}}

SelectArgs ==
  {OneStandard("A"), StandardList(<<>>), StandardList(<<"A">>),
   StandardList(<<"A", "B">>), StandardList(<<"B", "A">>)}

InitSelect ==
  /\ lessons_data = <<>>
  /\ passages_data \in Pools
  /\ examples_data \in SelectCatalogues
  /\ quality_control = "real"
  /\ lesson_name = None
  /\ standard_id = NoStandard
  /\ sp_arg \in SelectArgs
  /\ gpc \in (IF sp_arg.kind = "list" /\ sp_arg.ids # <<>>
              THEN {"select", "passage"} ELSE {"select"})
  /\ lesson_standards = IF gpc = "passage" THEN sp_arg.ids ELSE <<>>
  /\ passage = NoPassage
  /\ all_questions = <<>>
  /\ slot = 1
  /\ attempt = 1
  /\ attempts_made = 0
  /\ llm_faults = 0
  /\ llm_called = FALSE
  /\ last_attempt = NoAttempt
  /\ last_prompt = <<>>
  /\ quiz = NoQuiz
  /\ sp_result = NoPassage
  /\ num_questions = 1
  /\ difficulty = 1
  /\ all_standards = <<>>
  /\ dpc = "idle"
  /\ num_easy = 0 /\ num_medium = 0 /\ num_hard = 0
  /\ questions_per_standard = [s \in Standards |-> 0]
  /\ qps_keys = <<>>
  /\ questions_left = 0
  /\ prioritized_standards = <<>>
  /\ result = [s \in Standards |-> ZeroCounts]
  /\ tiers_left = ZeroCounts
  /\ QCIdle
  /\ IndexIdle /\ ParseIdle /\ RetryIdle

NextSelect ==
  \/ CallSelectPassage
  \/ SelectQuizPassage

SpecSelect == InitSelect /\ [][NextSelect]_vars

(***************************************************************************)
(* SpecIndex: get_previous_standards on an arbitrary standard, over the    *)
(* curricula of at most MaxLessons lessons of at most MaxStandardsPerLesson *)
(* standards each, repetitions included.                                   *)
(***************************************************************************)
LessonIds == <<"L1", "L2", "L3", "L4">>

IndexCurricula ==
  {[i \in 1..Len(c) |-> [lesson |-> LessonIds[i], standards |-> c[i]]] :
     c \in SeqsUpTo(SeqsUpTo({"A", "B", "C"}, 0, MaxStandardsPerLesson),
                    0, MaxLessons)}

InitIndex ==
  /\ lessons_data \in IndexCurricula
  /\ gps_standard \in {"A", "B", "C", "D"}
  /\ gps_result = <<>>
  /\ lessons_file = <<>>
  /\ gsl_result = <<>>
  /\ gpc = "previous"
  /\ passages_data = <<>>
  /\ examples_data = [s \in Standards |-> ExampleProfile("none")]
  /\ quality_control = "real"
  /\ lesson_name = None
  /\ standard_id = NoStandard
  /\ passage = NoPassage
  /\ all_questions = <<>>
  /\ slot = 1
  /\ attempt = 1
  /\ attempts_made = 0
  /\ llm_faults = 0
  /\ llm_called = FALSE
  /\ last_attempt = NoAttempt
  /\ last_prompt = <<>>
  /\ quiz = NoQuiz
  /\ sp_arg = NoStandard
  /\ sp_result = NoPassage
  /\ DistIdle /\ QCIdle /\ ParseIdle /\ RetryIdle

NextIndex == GetPreviousStandards

SpecIndex == InitIndex /\ [][NextIndex]_vars

(***************************************************************************)
(* SpecLoad: load_data on a lessons file of at most MaxFileLessons         *)
(* entries, each with a standards text of at most MaxFields fields, then   *)
(* get_standards_for_lesson for a lesson name.                             *)
(***************************************************************************)
FieldTexts == {"A", " A", "B ", ""}

LessonFiles ==
  SeqsUpTo({[lesson |-> n, standards |-> t] :
              n \in {"L1", None}, t \in SeqsUpTo(FieldTexts, 0, MaxFields)},
           1, MaxFileLessons)

InitLoad ==
  /\ lessons_file \in LessonFiles
  /\ lesson_name \in {"L1", "L2"}
  /\ lessons_data = <<>>
  /\ gsl_result = <<>>
  /\ gps_standard = None
  /\ gps_result = <<>>
  /\ gpc = "load"
  /\ passages_data = <<>>
  /\ examples_data = [s \in Standards |-> ExampleProfile("none")]
  /\ quality_control = "real"
  /\ standard_id = NoStandard
  /\ passage = NoPassage
  /\ all_questions = <<>>
  /\ slot = 1
  /\ attempt = 1
  /\ attempts_made = 0
  /\ llm_faults = 0
  /\ llm_called = FALSE
  /\ last_attempt = NoAttempt
  /\ last_prompt = <<>>
  /\ quiz = NoQuiz
  /\ sp_arg = NoStandard
  /\ sp_result = NoPassage
  /\ DistIdle /\ QCIdle /\ ParseIdle /\ RetryIdle

NextLoad ==
  \/ LoadData
  \/ GetStandardsForLesson

SpecLoad == InitLoad /\ [][NextLoad]_vars

(***************************************************************************)
(* SpecParse: parse_claude_response on the replies that hold a JSON object *)
(* with the five required fields, each a string of at most MaxValueLen     *)
(* characters.                                                             *)
(***************************************************************************)
FieldValues == SeqsUpTo(ValueChars, 0, MaxValueLen)

WellFormedReplies ==
  [fenced : BOOLEAN, noise : {"none", "prose", "braces"},
   fields : [required_fields -> FieldValues]]

InitParse ==
  /\ response \in WellFormedReplies
  /\ parsed = NoParse
  /\ gpc = "parse"
  /\ lessons_data = <<>>
  /\ passages_data = <<>>
  /\ examples_data = [s \in Standards |-> ExampleProfile("none")]
  /\ quality_control = "real"
  /\ lesson_name = None
  /\ standard_id = NoStandard
  /\ passage = NoPassage
  /\ all_questions = <<>>
  /\ slot = 1
  /\ attempt = 1
  /\ attempts_made = 0
  /\ llm_faults = 0
  /\ llm_called = FALSE
  /\ last_attempt = NoAttempt
  /\ last_prompt = <<>>
  /\ quiz = NoQuiz
  /\ sp_arg = NoStandard
  /\ sp_result = NoPassage
  /\ DistIdle /\ QCIdle /\ IndexIdle /\ RetryIdle

NextParse == ParseClaudeResponse

SpecParse == InitParse /\ [][NextParse]_vars

(***************************************************************************)
(* SpecRetry: one call of a function decorated by with_retry, for          *)
(* max_retries up to MaxRetries, with and without a timeout.               *)
(***************************************************************************)
InitRetry ==
  /\ rpc = "loop"
  /\ max_retries \in 0..MaxRetries
  /\ timeout \in {None, "set"}
  /\ exceptions_to_retry \in {"all", "listed"}
  /\ retry_attempt = 0
  /\ invocations = 0
  /\ in_flight = 0
  /\ waits = 0
  /\ error_messages = <<>>
  /\ retry_result = NoResult
  /\ DistIdle /\ QCIdle /\ QuizIdle /\ IndexIdle /\ ParseIdle

NextRetry ==
  \/ RetryInvoke
  \/ RetryLoopEnds
  \/ RequestCompletes

SpecRetry == InitRetry /\ [][NextRetry]_vars

(***************************************************************************)
(* Claims about distribute_questions (SpecDist).                           *)
(***************************************************************************)
\* C1: when distribute_questions returns, the counts of the returned mapping,
\* summed over all standards and the three tiers, equal num_questions.
DistTotalIsNumQuestions ==
  dpc = "done" => TotalDistributed(result, qps_keys) = num_questions

\* C9: in the returned mapping a single target standard holds at least 3
\* questions when num_questions >= 3, and each of N > 1 target standards holds
\* at least 2 when num_questions >= 2N.
MinimumQuotaRespected ==
  dpc = "done" =>
    /\ (Len(lesson_standards) = 1 /\ num_questions >= 3)
         => StandardTotal(result, lesson_standards[1]) >= 3
    /\ (Len(lesson_standards) > 1 /\ num_questions >= 2 * Len(lesson_standards))
         => \A i \in 1..Len(lesson_standards) :
               StandardTotal(result, lesson_standards[i]) >= 2

(***************************************************************************)
(* Claims about validate_question (SpecQC).                                *)
(***************************************************************************)
AllRubricChecksPass ==
  \A i \in 1..Len(required_checks) :
     /\ required_checks[i] \in DOMAIN v_result.quality_checks
     /\ v_result.quality_checks[required_checks[i]].passes

RepliesScoringOne ==
  Cardinality({i \in 1..Len(distractor_results) : distractor_results[i].reply = 1})

\* C3: a distractor whose plausibility reply carries score 1 is counted
\* plausible and one whose reply carries score 0 is not; with three replies of
\* score 1 the count is 3 and the plausibility check passes.
PlausibilityFollowsScore ==
  /\ \A i \in 1..Len(distractor_results) :
        distractor_results[i].reply # -1 =>
          (distractor_results[i].is_plausible <=> distractor_results[i].reply = 1)
  /\ (qpc = "returned" /\ RepliesScoringOne = 3) =>
        /\ PlausibleCount(distractor_results) = 3
        /\ v_result.quality_checks["plausibility"].passes

\* C4: validate_question returns is_valid = TRUE exactly when the six rubric
\* checks pass and the plausibility replies that score 1 reach the threshold.
ValidIffAllChecksPass ==
  qpc = "returned" =>
    (v_result.is_valid <=>
       (AllRubricChecksPass
        /\ RepliesScoringOne >= RequiredPlausible(question.difficulty)))

(***************************************************************************)
(* Claims about generate_quiz (Spec).                                      *)
(***************************************************************************)
Returned == gpc \in {"fallback", "done"}

\* The target standards the request resolves to, and the standards the
\* distribution is computed over.
RequestStandards == TargetStandards(lessons_data, lesson_name, standard_id)
DistributionStandards ==
  Range(RequestStandards) \cup
  Range(AllPreviousStandards(lessons_data, RequestStandards, <<>>))

\* C2: generate_quiz never raises to its caller, whatever the request and
\* whatever the LLM calls do.
NeverRaises == gpc # "raised"

\* The request of scenarios A and B: a single standard, given by its id or as
\* the only standard of the requested lesson.
SingleStandardRequest ==
  \/ standard_id.kind = "str"
  \/ /\ standard_id = NoStandard
     /\ lesson_name # None
     /\ Len(StandardsByLesson(lessons_data, lesson_name)) = 1

ExampleCount(s) ==
  SumOver([l \in {"1", "2", "3"} |->
             examples_data[s][l].reading + examples_data[s][l].writing],
          {"1", "2", "3"})

\* Scenario A: QC accepts every question, every generation reply parses and no
\* call raises, 6 questions of difficulty 1 are requested for a single
\* standard that has at least 6 examples, a reading example among them, and a
\* non-Draft passage.
ScenarioA ==
  /\ quality_control = "accepting"
  /\ llm_faults = 0
  /\ num_questions = 6
  /\ difficulty = 1
  /\ SingleStandardRequest
  /\ LET s == RequestStandards[1]
     IN  /\ ExampleCount(s) >= 6
         /\ \E l \in {"1", "2", "3"} : examples_data[s][l].reading > 0
         /\ \E i \in 1..Len(passages_data) :
               passages_data[i].type # "Draft" /\ s \in passages_data[i].standards

SixQuestions ==
  /\ gpc \notin {"raised", "fallback"}
  /\ gpc = "done" =>
       /\ Len(quiz.questions) = 6
       /\ quiz.metadata.num_questions_generated = 6
       /\ ~quiz.metadata.error

\* C5 as stated: in scenario A the quiz has exactly 6 questions,
\* num_questions_generated = 6 and no error, wherever the standard stands in
\* the curriculum and whatever distribution is drawn.
ScenarioAYieldsSix == ScenarioA => SixQuestions

\* Every standard of the distribution has an example for each difficulty value.
CellsHaveExamples ==
  \A s \in DistributionStandards :
     \A l \in {"1", "2", "3"} :
        examples_data[s][l].reading + examples_data[s][l].writing > 0

\* C5 as amended: in scenario A, when the standard and every standard before
\* it in the curriculum have an example for each of the three difficulty
\* values, the quiz has exactly 6 questions, num_questions_generated = 6 and
\* no error.
ScenarioAWithExamplesYieldsSix == (ScenarioA /\ CellsHaveExamples) => SixQuestions

\* C5 witness: scenario A has run to its end for a standard with an earlier
\* standard before it in the curriculum, and six questions are in the quiz.
ScenarioAWitness ==
  /\ ScenarioA /\ CellsHaveExamples
  /\ gpc = "done"
  /\ Len(all_standards) = 2
  /\ Len(qps_keys) = 2
  /\ Len(quiz.questions) = 6

\* Scenario B: the QC double that rejects every question and improves none,
\* for the request of scenario A.
ScenarioB == quality_control = "rejecting" /\ SingleStandardRequest

\* C6 as stated: in scenario B generate_quiz raises nothing and returns a quiz
\* with 0 questions and num_questions_generated = 0, after max_attempts
\* attempts for every slot of the distribution.
RejectedAfterEverySlot ==
  ScenarioB =>
    /\ gpc # "raised"
    /\ gpc = "done" =>
         /\ quiz.questions = <<>>
         /\ quiz.metadata.num_questions_generated = 0
         /\ attempts_made = max_attempts * TotalDistributed(result, qps_keys)

\* C6 as amended: in scenario B generate_quiz raises nothing and returns a
\* quiz with 0 questions and num_questions_generated = 0, after max_attempts
\* attempts for every slot of the distribution whose (standard, tier) cell has
\* an example; the slots of the other cells are skipped.
RejectedAfterEverySlotWithExamples ==
  ScenarioB =>
    /\ gpc # "raised"
    /\ gpc = "generate" => all_questions = <<>>
    /\ gpc = "done" =>
         /\ quiz.questions = <<>>
         /\ quiz.metadata.num_questions_generated = 0
         /\ attempts_made = max_attempts * Len(SlotList)
         /\ CellsHaveExamples =>
              attempts_made = max_attempts * TotalDistributed(result, qps_keys)

\* C6 witness: scenario B has run to its end on a request of 6 questions of
\* which some slots were attempted and some, of a standard without examples,
\* were skipped.
ScenarioBWitness ==
  /\ ScenarioB
  /\ gpc = "done"
  /\ num_questions = 6
  /\ attempts_made > 0
  /\ attempts_made < max_attempts * 6
  /\ quiz.questions = <<>>

LessonUnknown ==
  /\ lesson_name # None
  /\ \A i \in 1..Len(lessons_data) : lessons_data[i].lesson # lesson_name

\* The fallback quiz of a request for lesson_name: no questions, the error
\* string, the requested name, and the first loaded passage or the placeholder.
FallbackQuizReturned ==
  /\ gpc \in {"log", "standards", "fallback"}
  /\ ~llm_called
  /\ gpc = "fallback" =>
       /\ quiz.questions = <<>>
       /\ quiz.metadata.error
       /\ quiz.metadata.lesson_name = lesson_name
       /\ quiz.passage.id = (IF passages_data # <<>> THEN passages_data[1].id
                             ELSE "fallback")

\* C7 as stated: a request whose lesson name is not in the curriculum index
\* returns the fallback quiz and makes no LLM call.
UnknownLessonGivesFallback == LessonUnknown => FallbackQuizReturned

\* C7 as amended: a request by lesson name alone (no standard_id) whose
\* lesson name is not in the curriculum index returns the fallback quiz and
\* makes no LLM call.
UnknownLessonAloneGivesFallback ==
  (LessonUnknown /\ ~Truthy(standard_id)) => FallbackQuizReturned

\* C7 witness: the fallback quiz was returned for an unknown lesson name, with
\* the placeholder passage because no passage is loaded.
UnknownLessonWitness ==
  /\ LessonUnknown /\ ~Truthy(standard_id)
  /\ gpc = "fallback"
  /\ passages_data = <<>>
  /\ quiz.passage.id = "fallback"
  /\ quiz.metadata.lesson_name = "L9"

\* C8: a request without lesson_name and standard_id, or by the name of a
\* lesson without standards, returns the fallback quiz with no passage
\* selected, no distribution computed and no LLM call made.
NoStandardsGoStraightToFallback ==
  (/\ standard_id = NoStandard
   /\ lesson_name = None \/ StandardsByLesson(lessons_data, lesson_name) = <<>>)
  => /\ gpc \in {"log", "standards", "fallback"}
     /\ passage = NoPassage
     /\ dpc = "idle"
     /\ ~llm_called
     /\ gpc = "fallback" => (quiz.questions = <<>> /\ quiz.metadata.error)

(***************************************************************************)
(* Claims about passage selection (SpecSelect).                            *)
(***************************************************************************)
AllHaveWritingExamples(stds) ==
  \A i \in 1..Len(stds) : CheckForWritingExamples(examples_data, stds[i])

NoneHasWritingExamples(stds) ==
  \A i \in 1..Len(stds) : ~CheckForWritingExamples(examples_data, stds[i])

DraftOnlyPool == \A i \in 1..Len(passages_data) : passages_data[i].type = "Draft"

\* C10: select_passage returns, and generate_quiz goes on with, a Draft passage
\* only if every target standard has a writing example; with a pool of Draft
\* passages only and no writing examples both end without a passage.
DraftOnlyWithWritingExamples ==
  /\ gpc = "selected" =>
       /\ sp_result.type = "Draft" => AllHaveWritingExamples(sp_arg.ids)
       /\ (DraftOnlyPool /\ NoneHasWritingExamples(sp_arg.ids))
            => sp_result = NoPassage
  /\ gpc = "distribute" =>
       /\ passage.type = "Draft" => AllHaveWritingExamples(lesson_standards)
       /\ ~(DraftOnlyPool /\ NoneHasWritingExamples(lesson_standards))

(***************************************************************************)
(* Claims about the attempt loop (Spec).                                   *)
(***************************************************************************)
FailedAttempt(a) == a.outcome \in {"invalid", "fault"}

\* C11: a slot gets at most 3 attempts, each sending one generation prompt;
\* an attempt that fails (no parse, a rejection not repaired, an exception)
\* is followed by the next attempt of the same slot, and the third failed
\* attempt by the return of null: the slot is left without a question and a
\* 4th attempt never starts.
AtMostThreeAttempts ==
  [][gpc = "generate" =>
       /\ attempt <= 3
       /\ last_attempt'.prompts = 1
       /\ attempts_made' = attempts_made + 1
       /\ (FailedAttempt(last_attempt') /\ attempt < 3) =>
            (attempt' = attempt + 1 /\ slot' = slot
             /\ all_questions' = all_questions)
       /\ (FailedAttempt(last_attempt') /\ attempt >= 3) =>
            (attempt' = 1 /\ slot' = slot + 1 /\ all_questions' = all_questions)
       /\ ~FailedAttempt(last_attempt') =>
            (attempt' = 1 /\ slot' = slot + 1
             /\ Len(all_questions') = Len(all_questions) + 1)]_vars

\* C11 witness: the first slot was given up after three failed attempts, the
\* last of them ended by an exception.
SlotAbandonedWitness ==
  /\ attempts_made = 3
  /\ slot = 2
  /\ all_questions = <<>>
  /\ last_attempt.outcome = "fault"

\* C17: in one attempt an accepted question is returned after its one
\* validation and without an improvement; after a rejection improve_question
\* is called exactly once, and the improved question is returned only if its
\* validation passes, else the attempt has failed; no question is returned
\* whose latest validation gave is_valid = FALSE.
ReturnedOnlyWhenValid ==
  [][gpc = "generate" =>
       LET a == last_attempt' IN
       /\ a.outcome = "valid" =>
            (a.validations = 1 /\ a.improvements = 0
             /\ Len(all_questions') = Len(all_questions) + 1)
       /\ a.outcome \in {"improved", "invalid"} => a.improvements = 1
       /\ a.outcome = "improved" =>
            (a.validations = 2 /\ a.is_valid
             /\ Len(all_questions') = Len(all_questions) + 1)
       /\ a.outcome = "invalid" => (~a.is_valid /\ all_questions' = all_questions)
       /\ all_questions' # all_questions => a.is_valid]_vars

\* C17 witness: the quality control rejected a question and its improved
\* version passed the second validation and was returned.
ImprovedReturnedWitness ==
  /\ quality_control = QCStandIn
  /\ last_attempt.outcome = "improved"
  /\ last_attempt.validations = 2
  /\ Len(all_questions) = 1

\* C18: improve_question calls validate_question not once, and hands the
\* extracted question back whenever the extraction succeeds, so that the
\* generator validates it.
ImproveDoesNotValidate ==
  last_attempt.improvements = 1 =>
    /\ last_attempt.inner_validations = 0
    /\ (last_attempt.extracted /\ last_attempt.outcome # "fault")
         => last_attempt.validations = 2

\* C13: in every quiz generate_quiz returns, metadata.num_questions is the
\* requested num_questions and metadata.num_questions_generated the length
\* of the questions list.
MetadataCountsMatch ==
  Returned =>
    /\ quiz.metadata.num_questions = num_questions
    /\ quiz.metadata.num_questions_generated = Len(quiz.questions)

\* C20: every question generated from a Draft passage is for a standard that
\* has a writing example, the previous standards of the curriculum included.
DraftQuestionsHaveWritingExamples ==
  passage.type = "Draft" =>
    \A i \in 1..Len(all_questions) :
       CheckForWritingExamples(examples_data, all_questions[i].standard)

(***************************************************************************)
(* Claims about distribute_questions, tier sizing (SpecDist).              *)
(***************************************************************************)
EasyMin == TierMins(difficulty, num_questions).easy
MediumMin == TierMins(difficulty, num_questions).medium
HardMin == TierMins(difficulty, num_questions).hard
EasyMax == Min(DIFFICULTY_LEVELS[difficulty].easy[2],
               num_questions - MediumMin - HardMin)
MediumMax == Min(DIFFICULTY_LEVELS[difficulty].medium[2],
                 (num_questions - num_easy) - HardMin)

\* C16: once the tiers are sized, num_easy lies between the easy minimum and
\* the computed easy maximum when that range is not empty, and so does
\* num_medium in its range; a range of one value gives exactly that value.
TierCountsInRange ==
  dpc \notin {"idle", "tiers"} =>
    /\ EasyMin <= EasyMax => (EasyMin <= num_easy /\ num_easy <= EasyMax)
    /\ MediumMin <= MediumMax =>
         (MediumMin <= num_medium /\ num_medium <= MediumMax)
    /\ EasyMin = EasyMax => num_easy = EasyMin
    /\ MediumMin = MediumMax => num_medium = MediumMin

\* C16 witness: the easy range had several values and num_easy was drawn at
\* its maximum, which left one value for num_medium.
TierRangeWitness ==
  /\ dpc = "done"
  /\ EasyMin < EasyMax
  /\ num_easy = EasyMax
  /\ MediumMin = MediumMax
  /\ num_medium = MediumMin

(***************************************************************************)
(* Claims about validate_question, rubric phase (SpecQC).                  *)
(***************************************************************************)
RubricPhaseDone == qpc \in {"plausibility", "aggregate"}

FailingChecks ==
  {n \in DOMAIN v_result.quality_checks : ~v_result.quality_checks[n].passes}

AllSixRan == DOMAIN v_result.quality_checks = Range(required_checks)

\* C19 as stated: after the rubric phase all six checks have run, and errors
\* and improvement_suggestions each have one entry per failing check.
RubricEntriesPerFailure ==
  RubricPhaseDone =>
    /\ AllSixRan
    /\ Len(v_result.errors) = Cardinality(FailingChecks)
    /\ Len(v_result.improvement_suggestions) = Cardinality(FailingChecks)

\* C19 as amended: after the rubric phase all six checks have run, errors has
\* one entry per failing check, and improvement_suggestions one entry per
\* failing check whose result carries a reasoning.
RubricEntriesPerReasonedFailure ==
  RubricPhaseDone =>
    /\ AllSixRan
    /\ Len(v_result.errors) = Cardinality(FailingChecks)
    /\ Len(v_result.improvement_suggestions) =
         Cardinality({n \in FailingChecks : v_result.quality_checks[n].reasoning})

\* C19 witness: the first check failed and the last one ran all the same; of
\* the two failing checks one came without a reasoning.
RubricWitness ==
  /\ qpc = "plausibility"
  /\ ~v_result.quality_checks["formatting"].passes
  /\ Cardinality(FailingChecks) = 2
  /\ Len(v_result.improvement_suggestions) = 1
  /\ "single correct answer" \in DOMAIN v_result.quality_checks

(***************************************************************************)
(* Claims about get_previous_standards (SpecIndex).                        *)
(***************************************************************************)
\* The standards lists of the lessons, one after the other.
RECURSIVE Flatten(_)
Flatten(lessons) ==
  IF lessons = <<>> THEN <<>>
  ELSE Head(lessons).standards \o Flatten(Tail(lessons))

\* Where a standard first appears in the curriculum.
FirstAppearance(x) ==
  LET flat == Flatten(lessons_data)
  IN  CHOOSE i \in 1..Len(flat) :
        flat[i] = x /\ \A j \in 1..(i - 1) : flat[j] # x

ParseRoundTrips ==
  gpc = "parsed" =>
    /\ parsed.status = "question"
    /\ parsed.fields = response.fields

(***************************************************************************)
(* Claims about with_retry (SpecRetry).                                    *)
(***************************************************************************)
RetryDone == rpc \in {"returned", "raised"}

\* C12: the wrapped operation is invoked at most max_retries times; the first
\* success is returned and nothing is invoked after it; a timeout is retried
\* like a listed exception; when every invocation failed the last error is
\* raised, and the wrapper has slept once between two invocations and not
\* after the last.
RetryBounded ==
  /\ invocations <= max_retries
  /\ rpc = "loop" => (waits = invocations /\ Len(error_messages) = invocations)
  /\ (RetryDone /\ retry_result.kind = "value") =>
       /\ invocations = retry_result.attempt + 1
       /\ waits = invocations - 1
       /\ Len(error_messages) = invocations - 1
  /\ (RetryDone /\ invocations > 0 /\ retry_result.kind # "value") =>
       /\ rpc = "raised"
       /\ retry_result.kind = "error"
       /\ retry_result.attempt = invocations - 1
       /\ waits = invocations - 1
       /\ retry_result.error \in {"listed", "timeout"} =>
            /\ invocations = max_retries
            /\ error_messages[Len(error_messages)] =
                 [attempt |-> retry_result.attempt, error |-> retry_result.error]

\* C12 witness: three invocations, the first failed, the second timed out and
\* was retried, the third timed out too and its error was raised after two
\* waits.
RetryWitness ==
  /\ rpc = "raised"
  /\ max_retries = 3
  /\ invocations = 3
  /\ waits = 2
  /\ error_messages[1].error = "listed"
  /\ error_messages[2].error = "timeout"
  /\ retry_result.error = "timeout"

(***************************************************************************)
(* Claims about the common passages of several standards (SpecSelect).     *)
(***************************************************************************)
SeveralWithCommonPassages(stds) ==
  Len(stds) > 1 /\ CommonPassages(passages_data, stds) # {}

\* C21: when several target standards share at least one passage id,
\* select_passage returns, and generate_quiz goes on with, a passage of that
\* intersection or none at all, never a passage from outside it.
SelectionStaysInIntersection ==
  /\ (gpc = "selected" /\ sp_arg.kind = "list"
      /\ SeveralWithCommonPassages(sp_arg.ids)) =>
       sp_result \in CommonPassages(passages_data, sp_arg.ids) \cup {NoPassage}
  /\ (gpc = "distribute" /\ SeveralWithCommonPassages(lesson_standards)) =>
       passage \in CommonPassages(passages_data, lesson_standards)

(***************************************************************************)
(* Claims about the per-standard cap of distribute_questions (SpecDist).   *)
(***************************************************************************)
\* C22: while the weighted loop runs, every standard of the candidate list
\* holds fewer than max(3, num_questions // 4) questions, so that no standard
\* at the cap is given one more.
CandidatesBelowCap ==
  dpc = "weighted" =>
    \A i \in 1..Len(prioritized_standards) :
       questions_per_standard[prioritized_standards[i]]
         < MaxPerStandard(num_questions)

(***************************************************************************)
(* Claims about the scaled tier minimums (SpecDist).                       *)
(***************************************************************************)
TableMinTotal ==
  DIFFICULTY_LEVELS[difficulty].easy[1] + DIFFICULTY_LEVELS[difficulty].medium[1]
    + DIFFICULTY_LEVELS[difficulty].hard[1]

ScaledMinTotal == EasyMin + MediumMin + HardMin

MinimumsAtLeastOne == EasyMin >= 1 /\ MediumMin >= 1 /\ HardMin >= 1

\* C23: when the table minimums of the difficulty add up to more than
\* num_questions, the scaled minimums, each at least 1, add up to at most
\* num_questions.
ScaledMinimumsFit ==
  TableMinTotal > num_questions =>
    (MinimumsAtLeastOne /\ ScaledMinTotal <= num_questions)

\* C23 as amended: the same for num_questions >= 3; for 1 or 2 questions the
\* scaled minimums are 1 each and add up to 3.
ScaledMinimumsFitFromThree ==
  TableMinTotal > num_questions =>
    /\ MinimumsAtLeastOne
    /\ num_questions >= 3 => ScaledMinTotal <= num_questions
    /\ num_questions < 3 => ScaledMinTotal = 3

\* C23 witness: 4 questions of difficulty 2, whose table minimums add up to
\* 6, were sized with scaled minimums that add up to 3.
ScaledMinimumsWitness ==
  /\ dpc = "done"
  /\ num_questions = 4
  /\ difficulty = 2
  /\ TableMinTotal = 6
  /\ ScaledMinTotal = 3
  /\ num_easy + num_medium + num_hard = 4

(***************************************************************************)
(* Claims about the standards list of a lesson (SpecLoad).                 *)
(***************************************************************************)
\* The standards named in the text of the last file entry of a lesson name.
LessonEntries == {i \in 1..Len(lessons_file) : lessons_file[i].lesson = lesson_name}

LessonText == lessons_file[Last(LessonEntries)].standards

NamedIn(text) == {Strip(text[i]) : i \in 1..Len(text)} \ {""}

FirstField(text, x) == CHOOSE i \in 1..Len(text) :
  Strip(text[i]) = x /\ \A j \in 1..(i - 1) : Strip(text[j]) # x

\* C24: the standards list of a lesson holds the standards its text names,
\* in the order of the text, and no standard twice, whatever the text
\* repeats.
LessonStandardsDistinct ==
  (gpc = "lesson_returned" /\ lesson_name # None /\ LessonEntries # {}) =>
    /\ Range(gsl_result) = NamedIn(LessonText)
    /\ \A i, j \in 1..Len(gsl_result) :
          i < j => /\ gsl_result[i] # gsl_result[j]
                   /\ FirstField(LessonText, gsl_result[i])
                        < FirstField(LessonText, gsl_result[j])

(***************************************************************************)
(* Claims about the questions of a quiz and the prompts (Spec).            *)
(***************************************************************************)
\* C25: slots are worked one after another, and the prompt of each attempt
\* lists the questions accepted so far, all of them and in the order of
\* their acceptance, and not the question the attempt before it gave up.
PromptListsAcceptedQuestions ==
  [][gpc = "generate" =>
       /\ slot' \in {slot, slot + 1}
       /\ Len(last_prompt') = Len(all_questions)
       /\ \A i \in 1..Len(all_questions) :
             /\ last_prompt'[i].number = i
             /\ last_prompt'[i].question = all_questions[i].serial
             /\ all_questions[i].serial <= attempts_made
             /\ \A j \in 1..(i - 1) :
                   all_questions[j].serial < all_questions[i].serial
       /\ FailedAttempt(last_attempt) =>
            \A i \in 1..Len(last_prompt') :
               last_prompt'[i].question # attempts_made]_vars

\* C25 witness: the prompt of an attempt lists two accepted questions, the
\* second of them accepted after a slot in between had been given up after
\* three attempts.
PromptAfterAbandonedSlotWitness ==
  /\ Len(last_prompt) = 2
  /\ last_prompt[1].question = 1
  /\ last_prompt[2].question = 5
  /\ slot >= 4

EventuallyDoneOrFallback == <>(gpc \in {"done", "fallback"})

(***************************************************************************)
(* Claims about the tier assignment of distribute_questions (SpecDist).    *)
(***************************************************************************)
DistinctTargets ==
  \A i, j \in 1..Len(lesson_standards) :
     i # j => lesson_standards[i] # lesson_standards[j]

TierTotal(res, keys, tier) == SumOver([s \in Standards |-> res[s][tier]], KeySet(keys))

\* C28: for distinct target standards, after the tier-assignment pass every
\* standard holds as many questions as its quota, the tiers hold num_easy,
\* num_medium and num_hard questions, and the leftover pass that follows
\* assigns nothing.
TierPassUsesEveryUnit ==
  [][(dpc = "leftover" /\ lesson_standards # <<>> /\ DistinctTargets) =>
       /\ \A s \in KeySet(qps_keys) :
             StandardTotal(result, s) = questions_per_standard[s]
       /\ TierTotal(result, qps_keys, "easy") = num_easy
       /\ TierTotal(result, qps_keys, "medium") = num_medium
       /\ TierTotal(result, qps_keys, "hard") = num_hard
       /\ tiers_left = ZeroCounts
       /\ result' = result]_vars

\* C28 witness: 7 questions went to two target standards and an earlier
\* standard; the tier pass gave the earlier standard its quota, and the
\* returned mapping is the one the tier pass left.
TierPassWitness ==
  /\ dpc = "done"
  /\ num_questions = 7
  /\ lesson_standards = <<"A", "B">>
  /\ questions_per_standard["P"] = 2
  /\ StandardTotal(result, "P") = 2
  /\ StandardTotal(result, "A") = 3
  /\ tiers_left = ZeroCounts

(***************************************************************************)
(* Claims about the tier counts and the difficulty table (SpecDist).       *)
(***************************************************************************)
TableMaxTotal ==
  DIFFICULTY_LEVELS[difficulty].easy[2] + DIFFICULTY_LEVELS[difficulty].medium[2]
    + DIFFICULTY_LEVELS[difficulty].hard[2]

InTableRange(count, tier) ==
  /\ DIFFICULTY_LEVELS[difficulty][tier][1] <= count
  /\ count <= DIFFICULTY_LEVELS[difficulty][tier][2]

\* C29: when num_questions lies between the sum of the table minimums and
\* the sum of the table maximums of the difficulty, each of num_easy,
\* num_medium and num_hard lies in its range of the table.
TierCountsWithinTable ==
  (dpc \notin {"tiers", "idle"}
   /\ TableMinTotal <= num_questions /\ num_questions <= TableMaxTotal) =>
    /\ InTableRange(num_easy, "easy")
    /\ InTableRange(num_medium, "medium")
    /\ InTableRange(num_hard, "hard")

\* C30: for one wrapped LLM call at most one transport request is outstanding
\* at any time: whenever the wrapper starts an attempt, no request of an
\* earlier, timed-out attempt is still in flight in its worker thread.
OneRequestOutstanding ==
  [][invocations' = invocations + 1 => in_flight = 0]_vars

====
